---- MODULE Spec2Model ----
(***************************************************************************)
(* EventTicketer (Django app "home"): the relational store and the request *)
(* handlers of home/views.py, each handler split at its database           *)
(* statements so that concurrent requests interleave the way parallel      *)
(* workers in autocommit mode do.                                          *)
(***************************************************************************)
EXTENDS Integers, Sequences, FiniteSets, TLC

\* ---------------------------------------------------------------- bounds
MaxAvail == 2
MaxQty == 2
MaxOrders == 2
MaxMessages == 2
MaxItemId == 3
MaxListed == 2

\* Message.content: max_length (models.py)
MaxContentLength == 1000

\* ---------------------------------------------------------------- users
Anonymous == "anon"
Users == {"alice", "bob", "olga", "adam"}
Callers == Users \cup {Anonymous}
Requests == {"r1", "r2"}
Prices == {5000, 7550}

VARIABLES userprofile, events, orders, carts, items, nextItemId, rooms,
          messages, req, response

vars == <<userprofile, events, orders, carts, items, nextItemId, rooms,
          messages, req, response>>

\* The ChatRoom and Message tables
chatVars == <<rooms, messages>>

\* The Cart and CartItem tables
cartVars == <<carts, items, nextItemId>>

\* ------------------------------------------------------------- rows
\* Text: a sequence of characters, " " the whitespace character
DefaultTitle == <<"R", "o">>
DefaultVenue == <<"O">>

\* Event row: title, venue, ticket_price (in cents), ticket_availability,
\* organizer, created_at, is_published and the moderation columns.
NoRow == [title |-> DefaultTitle, venue |-> DefaultVenue, created_at |-> 0,
          ticket_price |-> 0, ticket_availability |-> 0, organizer |-> "none",
          is_published |-> FALSE, moderation_status |-> "pending",
          moderation_notes |-> "", moderated_by |-> "none", moderated_at |-> 0]

\* CartItem row: id, cart (named by its user), event, quantity
NoItem == [id |-> 0, user |-> "none", event |-> 0, quantity |-> 0]

\* Text of a message: pad whitespace characters around len other characters
NoContent == [pad |-> 0, len |-> 0]
Contents == {[pad |-> 0, len |-> 0], [pad |-> 1, len |-> 0], [pad |-> 1, len |-> 2],
             [pad |-> 0, len |-> MaxContentLength],
             [pad |-> 0, len |-> MaxContentLength + 1]}

\* EventForm input (forms.py Meta.fields): the fields that matter here
NoForm == [title |-> DefaultTitle, venue |-> DefaultVenue,
           ticket_price |-> 0, ticket_availability |-> 0, is_published |-> FALSE]
Forms == [title : {DefaultTitle}, venue : {DefaultVenue},
          ticket_price : Prices, ticket_availability : (-1)..MaxAvail,
          is_published : BOOLEAN]

\* PositiveIntegerField: a negative ticket_availability fails form validation
form_is_valid(form) == form.ticket_availability >= 0

Methods == {"GET", "POST"}

\* request.POST.get('quantity'): digits, or text that int() rejects
QtyInputs == [kind : {"int"}, n : 0..MaxQty] \cup {[kind |-> "text", n |-> 0]}

\* request.GET of the listing views: no parameter supplied
NoPrice == [kind |-> "blank", cents |-> 0]
NoPage == [kind |-> "missing", n |-> 0]
NoQuery == [name |-> <<>>, price_min |-> NoPrice, price_max |-> NoPrice,
            location |-> <<>>, page |-> NoPage, page_size |-> NoPage]

Idle == [pc |-> "idle", op |-> "none", user |-> "none", event |-> 0,
         quantity |-> 0, ev |-> NoRow, item |-> NoItem, content |-> NoContent,
         room |-> 0, query |-> NoQuery]

\* What the last finished handler answered
NoResponse == [op |-> "none", result |-> "none", body |-> <<>>]

Reply(op, result) == [op |-> op, result |-> result, body |-> <<>>]

\* request.user.is_authenticated (login_required)
is_authenticated(u) == u \in Users

\* hasattr(request.user, 'userprofile') and userprofile.user_type == t
has_user_type(u, t) == u \in Users /\ userprofile[u] = t

\* Event ids a request can name; EventTable holds the ids that can have a row
EventIds == {1, 2}
EventTable == {1}
EventExists(e) == e \in 1..Len(events)

Init ==
    /\ userprofile = [u \in Users |->
          CASE u \in {"alice", "bob"} -> "attendee"
            [] u = "olga" -> "event_organizer"
            [] OTHER -> "administrator"]
    /\ events = <<>>
    /\ orders = <<>>
    /\ carts = {}
    /\ items = {}
    /\ nextItemId = 1
    /\ rooms = {}
    /\ messages = <<>>
    /\ req = [r \in Requests |-> Idle]
    /\ response = NoResponse

\* ------------------------------------------------------- create_event
create_event_check(u, method, form) ==
    IF ~is_authenticated(u) THEN "LoginRequired"
    ELSE IF ~has_user_type(u, "event_organizer") THEN "PermissionDenied"
    ELSE IF method # "POST" THEN "Form"
    ELSE IF ~form_is_valid(form) THEN "ValidationError"
    ELSE "proceed"

\* The values now() can have at an INSERT: the clock has not passed the
\* created_at of the newest row, or it has
Now(ms) == IF ms = <<>> THEN {1}
           ELSE {ms[Len(ms)].created_at, ms[Len(ms)].created_at + 1}

\* form.save(commit=False); event.organizer = request.user; event.save()
NewEventRow(u, form) ==
    [NoRow EXCEPT !.title = form.title, !.venue = form.venue,
                  !.ticket_price = form.ticket_price,
                  !.ticket_availability = form.ticket_availability,
                  !.is_published = form.is_published,
                  !.organizer = u]

create_event(r, u, method, form) ==
    /\ req[r].pc = "idle"
    /\ LET res == create_event_check(u, method, form) IN
       IF res = "proceed"
       THEN /\ Len(events) < Cardinality(EventTable)
            /\ \E t \in Now(events) :
                  events' = Append(events, [NewEventRow(u, form)
                                               EXCEPT !.created_at = t])
            /\ response' = Reply("create_event", "ok")
       ELSE /\ events' = events
            /\ response' = Reply("create_event", res)
    /\ UNCHANGED <<userprofile, orders, req, cartVars, chatVars>>

\* --------------------------------------------------------- buy_ticket
\* buy_ticket_check without the test of line 133
buy_ticket_check_no_limit(u, e, method, qty) ==
    IF ~is_authenticated(u) THEN "LoginRequired"
    ELSE IF ~EventExists(e) THEN "NotFound"
    ELSE IF ~has_user_type(u, "attendee") THEN "PermissionDenied"
    ELSE IF method # "POST" THEN "Redirect"
    ELSE IF qty.kind # "int" THEN "InvalidInput"
    ELSE IF qty.n < 1 THEN "InvalidInput"
    ELSE IF events[e].ticket_availability <= 0 THEN "SoldOut"
    ELSE "proceed"

\* buy_ticket_check without the test of line 125
buy_ticket_check_no_minimum(u, e, method, qty) ==
    IF ~is_authenticated(u) THEN "LoginRequired"
    ELSE IF ~EventExists(e) THEN "NotFound"
    ELSE IF ~has_user_type(u, "attendee") THEN "PermissionDenied"
    ELSE IF method # "POST" THEN "Redirect"
    ELSE IF qty.kind # "int" THEN "InvalidInput"
    ELSE IF events[e].ticket_availability <= 0 THEN "SoldOut"
    ELSE IF qty.n > events[e].ticket_availability THEN "InsufficientAvailability"
    ELSE "proceed"

\* buy_ticket_check with the tests of lines 129 and 133 in the other order
buy_ticket_check_limit_first(u, e, method, qty) ==
    IF ~is_authenticated(u) THEN "LoginRequired"
    ELSE IF ~EventExists(e) THEN "NotFound"
    ELSE IF ~has_user_type(u, "attendee") THEN "PermissionDenied"
    ELSE IF method # "POST" THEN "Redirect"
    ELSE IF qty.kind # "int" THEN "InvalidInput"
    ELSE IF qty.n < 1 THEN "InvalidInput"
    ELSE IF qty.n > events[e].ticket_availability THEN "InsufficientAvailability"
    ELSE IF events[e].ticket_availability <= 0 THEN "SoldOut"
    ELSE "proceed"

\* views.py:107-135, in the order of the code
buy_ticket_check(u, e, method, qty) ==
    IF ~is_authenticated(u) THEN "LoginRequired"
    ELSE IF ~EventExists(e) THEN "NotFound"
    ELSE IF ~has_user_type(u, "attendee") THEN "PermissionDenied"
    ELSE IF method # "POST" THEN "Redirect"
    ELSE IF qty.kind # "int" THEN "InvalidInput"
    ELSE IF qty.n < 1 THEN "InvalidInput"
    ELSE IF events[e].ticket_availability <= 0 THEN "SoldOut"
    ELSE IF qty.n > events[e].ticket_availability THEN "InsufficientAvailability"
    ELSE "proceed"

\* Order rows that in-flight purchases are about to insert
PendingOrders ==
    Cardinality({q \in Requests : req[q].op = "buy_ticket" /\ req[q].pc = "create"})

\* event = get_object_or_404(...) and the validation up to line 135
buy_ticket_read(r, u, e, method, qty) ==
    /\ req[r].pc = "idle"
    /\ LET res == buy_ticket_check(u, e, method, qty) IN
       IF res = "proceed"
       THEN /\ Len(orders) + PendingOrders < MaxOrders
            /\ req' = [req EXCEPT ![r] = [Idle EXCEPT !.pc = "create",
                         !.op = "buy_ticket", !.user = u, !.event = e,
                         !.quantity = qty.n,
                         !.ev = [NoRow EXCEPT
                            !.ticket_price = events[e].ticket_price,
                            !.ticket_availability = events[e].ticket_availability]]]
            /\ response' = response
       ELSE /\ req' = req
            /\ response' = Reply("buy_ticket", res)
    /\ UNCHANGED <<userprofile, events, orders, cartVars, chatVars>>

\* Order.objects.create(...), views.py:138-144
NewOrder(u, e, q, price) ==
    [attendee |-> u, event |-> e, quantity |-> q, unit_price |-> price,
     status |-> "paid"]

\* buy_ticket_create that keeps only the new Order
buy_ticket_create_replace(r) ==
    /\ req[r].op = "buy_ticket" /\ req[r].pc = "create"
    /\ orders' = <<NewOrder(req[r].user, req[r].event,
                            req[r].quantity, req[r].ev.ticket_price)>>
    /\ req' = [req EXCEPT ![r].pc = "write"]
    /\ UNCHANGED <<userprofile, events, response, cartVars, chatVars>>

buy_ticket_create(r) ==
    /\ req[r].op = "buy_ticket" /\ req[r].pc = "create"
    /\ orders' = Append(orders, NewOrder(req[r].user, req[r].event,
                                         req[r].quantity, req[r].ev.ticket_price))
    /\ req' = [req EXCEPT ![r].pc = "write"]
    /\ UNCHANGED <<userprofile, events, response, cartVars, chatVars>>

\* buy_ticket_write taking one ticket whatever the quantity
buy_ticket_write_one(r) ==
    /\ req[r].op = "buy_ticket" /\ req[r].pc = "write"
    /\ events' = [events EXCEPT ![req[r].event].ticket_availability =
                     req[r].ev.ticket_availability - 1]
    /\ req' = [req EXCEPT ![r] = Idle]
    /\ response' = Reply("buy_ticket", "ok")
    /\ UNCHANGED <<userprofile, orders, cartVars, chatVars>>

\* event.ticket_availability -= quantity; event.save(update_fields=[...]):
\* the value written is computed from the row as it was read at line 107
buy_ticket_write(r) ==
    /\ req[r].op = "buy_ticket" /\ req[r].pc = "write"
    /\ events' = [events EXCEPT ![req[r].event].ticket_availability =
                     req[r].ev.ticket_availability - req[r].quantity]
    /\ req' = [req EXCEPT ![r] = Idle]
    /\ response' = Reply("buy_ticket", "ok")
    /\ UNCHANGED <<userprofile, orders, cartVars, chatVars>>

\* --------------------------------------------------------- edit_event
\* edit_event_check without the test of line 194
edit_event_check_any_organizer(u, e, method, form) ==
    IF ~is_authenticated(u) THEN "LoginRequired"
    ELSE IF ~EventExists(e) THEN "NotFound"
    ELSE IF ~has_user_type(u, "event_organizer") THEN "PermissionDenied"
    ELSE IF method # "POST" THEN "Form"
    ELSE IF ~form_is_valid(form) THEN "ValidationError"
    ELSE "proceed"

\* views.py:191-205, in the order of the code
edit_event_check(u, e, method, form) ==
    IF ~is_authenticated(u) THEN "LoginRequired"
    ELSE IF ~EventExists(e) THEN "NotFound"
    ELSE IF events[e].organizer # u THEN "PermissionDenied"
    ELSE IF ~has_user_type(u, "event_organizer") THEN "PermissionDenied"
    ELSE IF method # "POST" THEN "Form"
    ELSE IF ~form_is_valid(form) THEN "ValidationError"
    ELSE "proceed"

\* form.is_valid() on EventForm(request.POST, instance=event) copies the
\* form's fields into the instance read at line 191
EditedRow(row, form) ==
    [row EXCEPT !.title = form.title, !.venue = form.venue,
                !.ticket_price = form.ticket_price,
                !.ticket_availability = form.ticket_availability,
                !.is_published = form.is_published]

\* event = get_object_or_404(...); EventForm(request.POST, instance=event)
edit_event_read(r, u, e, method, form) ==
    /\ req[r].pc = "idle"
    /\ LET res == edit_event_check(u, e, method, form) IN
       IF res = "proceed"
       THEN /\ req' = [req EXCEPT ![r] = [Idle EXCEPT !.pc = "save",
                         !.op = "edit_event", !.user = u, !.event = e,
                         !.ev = EditedRow(events[e], form)]]
            /\ response' = response
       ELSE /\ req' = req
            /\ response' = Reply("edit_event", res)
    /\ UNCHANGED <<userprofile, events, orders, cartVars, chatVars>>

\* edit_event_save carrying the new ticket_price into the event's Orders
edit_event_save_reprice(r) ==
    /\ req[r].op = "edit_event" /\ req[r].pc = "save"
    /\ events' = [events EXCEPT ![req[r].event] = req[r].ev]
    /\ orders' = [i \in DOMAIN orders |->
                    IF orders[i].event = req[r].event
                    THEN [orders[i] EXCEPT !.unit_price = req[r].ev.ticket_price]
                    ELSE orders[i]]
    /\ req' = [req EXCEPT ![r] = Idle]
    /\ response' = Reply("edit_event", "ok")
    /\ UNCHANGED <<userprofile, cartVars, chatVars>>

\* form.save(): Model.save() without update_fields writes every column of
\* the instance, also the columns that are not fields of the form
edit_event_save(r) ==
    /\ req[r].op = "edit_event" /\ req[r].pc = "save"
    /\ events' = [events EXCEPT ![req[r].event] = req[r].ev]
    /\ req' = [req EXCEPT ![r] = Idle]
    /\ response' = Reply("edit_event", "ok")
    /\ UNCHANGED <<userprofile, orders, cartVars, chatVars>>

\* -------------------------------------------------------- add_to_cart
\* views.py:365-393, in the order of the code
add_to_cart_check(u, e, method, qty) ==
    IF ~is_authenticated(u) THEN "LoginRequired"
    ELSE IF ~EventExists(e) THEN "NotFound"
    ELSE IF ~has_user_type(u, "attendee") THEN "PermissionDenied"
    ELSE IF method # "POST" THEN "Redirect"
    ELSE IF qty.kind # "int" THEN "InvalidInput"
    ELSE IF qty.n < 1 THEN "InvalidInput"
    ELSE IF events[e].ticket_availability <= 0 THEN "SoldOut"
    ELSE IF qty.n > events[e].ticket_availability THEN "InsufficientAvailability"
    ELSE "proceed"

\* The CartItem rows of (cart of u, event e); unique_together allows one
ItemsOf(its, u, e) == {it \in its : it.user = u /\ it.event = e}
ItemOf(its, u, e) == CHOOSE it \in ItemsOf(its, u, e) : TRUE

add_to_cart_read(r, u, e, method, qty) ==
    /\ req[r].pc = "idle"
    /\ LET res == add_to_cart_check(u, e, method, qty) IN
       IF res = "proceed"
       THEN /\ nextItemId <= MaxItemId
            /\ req' = [req EXCEPT ![r] = [Idle EXCEPT !.pc = "cart",
                         !.op = "add_to_cart", !.user = u, !.event = e,
                         !.quantity = qty.n,
                         !.ev = [NoRow EXCEPT
                            !.ticket_availability = events[e].ticket_availability]]]
            /\ response' = response
       ELSE /\ req' = req
            /\ response' = Reply("add_to_cart", res)
    /\ UNCHANGED <<userprofile, events, orders, cartVars, chatVars>>

\* Cart.objects.get_or_create(user=request.user), views.py:396
add_to_cart_cart(r) ==
    /\ req[r].op = "add_to_cart" /\ req[r].pc = "cart"
    /\ carts' = carts \cup {req[r].user}
    /\ req' = [req EXCEPT ![r].pc = "item"]
    /\ UNCHANGED <<userprofile, events, orders, items, nextItemId, response, chatVars>>

\* unique_together = ('cart', 'event') without its unique index
CartItem_unique_together_off(its, u, e) == TRUE

\* unique_together = ('cart', 'event') (models.py:78): an INSERT for a pair
\* that has a row fails
CartItem_unique_together(its, u, e) == ItemsOf(its, u, e) = {}

\* CartItem.objects.get_or_create(cart, event, defaults={'quantity': q}),
\* views.py:399-403, the lookup: the item of the pair, if there is one
add_to_cart_item(r) ==
    /\ req[r].op = "add_to_cart" /\ req[r].pc = "item"
    /\ IF ItemsOf(items, req[r].user, req[r].event) = {}
       THEN req' = [req EXCEPT ![r].pc = "item_create"]
       ELSE req' = [req EXCEPT ![r].pc = "update",
                               ![r].item = ItemOf(items, req[r].user, req[r].event)]
    /\ UNCHANGED <<userprofile, events, orders, cartVars, chatVars, response>>

\* get_or_create, the creation: the INSERT, which ends the handler (line
\* 415), and when the unique index refuses it because another request
\* inserted the item meanwhile, the lookup of that item (item_created false)
add_to_cart_item_create(r) ==
    /\ req[r].op = "add_to_cart" /\ req[r].pc = "item_create"
    /\ IF CartItem_unique_together(items, req[r].user, req[r].event)
       THEN /\ items' = items \cup {[id |-> nextItemId, user |-> req[r].user,
                                     event |-> req[r].event,
                                     quantity |-> req[r].quantity]}
            /\ nextItemId' = nextItemId + 1
            /\ req' = [req EXCEPT ![r] = Idle]
            /\ response' = Reply("add_to_cart", "ok")
       ELSE /\ req' = [req EXCEPT ![r].pc = "update",
                                  ![r].item = ItemOf(items, req[r].user, req[r].event)]
            /\ UNCHANGED <<items, nextItemId, response>>
    /\ UNCHANGED <<userprofile, events, orders, carts, chatVars>>

\* Model.save() of a CartItem instance: UPDATE by id; when no row has the
\* id any more, INSERT it, which unique_together (cart, event) may refuse
SavedItems(its, it) ==
    IF \E x \in its : x.id = it.id
    THEN {x \in its : x.id # it.id} \cup {it}
    ELSE IF CartItem_unique_together(its, it.user, it.event) THEN its \cup {it}
    ELSE its

\* add_to_cart_update storing the requested quantity instead of the sum
add_to_cart_update_overwrite(r) ==
    /\ req[r].op = "add_to_cart" /\ req[r].pc = "update"
    /\ LET new_quantity == req[r].quantity IN
       IF new_quantity > req[r].ev.ticket_availability
       THEN /\ items' = items
            /\ response' = Reply("add_to_cart", "InsufficientAvailability")
       ELSE /\ items' = SavedItems(items, [req[r].item EXCEPT !.quantity = new_quantity])
            /\ response' = Reply("add_to_cart", "ok")
    /\ req' = [req EXCEPT ![r] = Idle]
    /\ UNCHANGED <<userprofile, events, orders, carts, nextItemId, chatVars>>

\* views.py:405-413: the increment of an item that was already in the cart,
\* computed from the item and the event as they were read
add_to_cart_update(r) ==
    /\ req[r].op = "add_to_cart" /\ req[r].pc = "update"
    /\ LET new_quantity == req[r].item.quantity + req[r].quantity IN
       IF new_quantity > req[r].ev.ticket_availability
       THEN /\ items' = items
            /\ response' = Reply("add_to_cart", "InsufficientAvailability")
       ELSE /\ items' = SavedItems(items, [req[r].item EXCEPT !.quantity = new_quantity])
            /\ response' = Reply("add_to_cart", "ok")
    /\ req' = [req EXCEPT ![r] = Idle]
    /\ UNCHANGED <<userprofile, events, orders, carts, nextItemId, chatVars>>

\* ----------------------------------------------------------- view_cart
\* views.py:419-436: the caller's cart, created when missing, and its items
view_cart_check(u) ==
    IF ~is_authenticated(u) THEN "LoginRequired"
    ELSE IF ~has_user_type(u, "attendee") THEN "PermissionDenied"
    ELSE "proceed"

\* cart.items.all()
CartItems(its, u) == {it \in its : it.user = u}

view_cart(r, u) ==
    /\ req[r].pc = "idle"
    /\ LET res == view_cart_check(u) IN
       IF res = "proceed"
       THEN /\ carts' = carts \cup {u}
            /\ response' = [op |-> "view_cart", result |-> "ok",
                            body |-> <<CartItems(items, u)>>]
       ELSE /\ carts' = carts
            /\ response' = Reply("view_cart", res)
    /\ UNCHANGED <<userprofile, events, orders, items, nextItemId, chatVars, req>>

\* ---------------------------------------------------- remove_from_cart
\* The lookup without cart__user=request.user
OwnItems_any_cart(its, u, id) == {it \in its : it.id = id}

\* get_object_or_404(CartItem, id=item_id, cart__user=request.user)
OwnItems(its, u, id) == {it \in its : it.id = id /\ it.user = u}

\* remove_from_cart_check without the role test
remove_from_cart_check_any_role(u, id) ==
    IF ~is_authenticated(u) THEN "LoginRequired"
    ELSE IF OwnItems(items, u, id) = {} THEN "NotFound"
    ELSE "proceed"

\* views.py:443-447, in the order of the code
remove_from_cart_check(u, id) ==
    IF ~is_authenticated(u) THEN "LoginRequired"
    ELSE IF ~has_user_type(u, "attendee") THEN "PermissionDenied"
    ELSE IF OwnItems(items, u, id) = {} THEN "NotFound"
    ELSE "proceed"

remove_from_cart_read(r, u, id) ==
    /\ req[r].pc = "idle"
    /\ LET res == remove_from_cart_check(u, id) IN
       IF res = "proceed"
       THEN /\ req' = [req EXCEPT ![r] = [Idle EXCEPT !.pc = "delete",
                         !.op = "remove_from_cart", !.user = u,
                         !.item = CHOOSE it \in OwnItems(items, u, id) : TRUE]]
            /\ response' = response
       ELSE /\ req' = req
            /\ response' = Reply("remove_from_cart", res)
    /\ UNCHANGED <<userprofile, events, orders, cartVars, chatVars>>

\* remove_from_cart_delete that leaves the row in the table
remove_from_cart_delete_keep(r) ==
    /\ req[r].op = "remove_from_cart" /\ req[r].pc = "delete"
    /\ items' = items
    /\ req' = [req EXCEPT ![r] = Idle]
    /\ response' = Reply("remove_from_cart", "ok")
    /\ UNCHANGED <<userprofile, events, orders, carts, nextItemId, chatVars>>

\* cart_item.delete(), views.py:449: DELETE of the row with the item's id
remove_from_cart_delete(r) ==
    /\ req[r].op = "remove_from_cart" /\ req[r].pc = "delete"
    /\ items' = {it \in items : it.id # req[r].item.id}
    /\ req' = [req EXCEPT ![r] = Idle]
    /\ response' = Reply("remove_from_cart", "ok")
    /\ UNCHANGED <<userprofile, events, orders, carts, nextItemId, chatVars>>

\* ------------------------------------------------ update_cart_quantity
\* update_cart_quantity_check without the test of line 475
update_cart_quantity_check_no_minimum(u, id, method, qty) ==
    IF ~is_authenticated(u) THEN "LoginRequired"
    ELSE IF ~has_user_type(u, "attendee") THEN "PermissionDenied"
    ELSE IF method # "POST" THEN "Redirect"
    ELSE IF OwnItems(items, u, id) = {} THEN "NotFound"
    ELSE IF qty.kind # "int" THEN "InvalidInput"
    ELSE "proceed"

\* views.py:458-477, in the order of the code
update_cart_quantity_check(u, id, method, qty) ==
    IF ~is_authenticated(u) THEN "LoginRequired"
    ELSE IF ~has_user_type(u, "attendee") THEN "PermissionDenied"
    ELSE IF method # "POST" THEN "Redirect"
    ELSE IF OwnItems(items, u, id) = {} THEN "NotFound"
    ELSE IF qty.kind # "int" THEN "InvalidInput"
    ELSE IF qty.n < 1 THEN "InvalidInput"
    ELSE "proceed"

update_cart_quantity_read(r, u, id, method, qty) ==
    /\ req[r].pc = "idle"
    /\ LET res == update_cart_quantity_check(u, id, method, qty) IN
       IF res = "proceed"
       THEN /\ req' = [req EXCEPT ![r] = [Idle EXCEPT !.pc = "event",
                         !.op = "update_cart_quantity", !.user = u,
                         !.quantity = qty.n,
                         !.item = CHOOSE it \in OwnItems(items, u, id) : TRUE]]
            /\ response' = response
       ELSE /\ req' = req
            /\ response' = Reply("update_cart_quantity", res)
    /\ UNCHANGED <<userprofile, events, orders, cartVars, chatVars>>

\* views.py:479-481: cart_item.event is loaded here, and the new quantity
\* compared with its ticket_availability
update_cart_quantity_event(r) ==
    /\ req[r].op = "update_cart_quantity" /\ req[r].pc = "event"
    /\ IF req[r].quantity > events[req[r].item.event].ticket_availability
       THEN /\ req' = [req EXCEPT ![r] = Idle]
            /\ response' = Reply("update_cart_quantity", "InsufficientAvailability")
       ELSE /\ req' = [req EXCEPT ![r].pc = "save",
                       ![r].ev = [NoRow EXCEPT !.ticket_availability =
                                     events[req[r].item.event].ticket_availability]]
            /\ response' = response
    /\ UNCHANGED <<userprofile, events, orders, cartVars, chatVars>>

\* update_cart_quantity_save adding the new quantity to the stored one
update_cart_quantity_save_increment(r) ==
    /\ req[r].op = "update_cart_quantity" /\ req[r].pc = "save"
    /\ items' = SavedItems(items,
                   [req[r].item EXCEPT !.quantity = req[r].item.quantity + req[r].quantity])
    /\ req' = [req EXCEPT ![r] = Idle]
    /\ response' = Reply("update_cart_quantity", "ok")
    /\ UNCHANGED <<userprofile, events, orders, carts, nextItemId, chatVars>>

\* update_cart_quantity_save taking the tickets out of the event
update_cart_quantity_save_reserve(r) ==
    /\ req[r].op = "update_cart_quantity" /\ req[r].pc = "save"
    /\ items' = SavedItems(items, [req[r].item EXCEPT !.quantity = req[r].quantity])
    /\ events' = [events EXCEPT ![req[r].item.event].ticket_availability =
                     @ - req[r].quantity]
    /\ req' = [req EXCEPT ![r] = Idle]
    /\ response' = Reply("update_cart_quantity", "ok")
    /\ UNCHANGED <<userprofile, orders, carts, nextItemId, chatVars>>

\* cart_item.quantity = quantity; cart_item.save(), views.py:483-484
update_cart_quantity_save(r) ==
    /\ req[r].op = "update_cart_quantity" /\ req[r].pc = "save"
    /\ items' = SavedItems(items, [req[r].item EXCEPT !.quantity = req[r].quantity])
    /\ req' = [req EXCEPT ![r] = Idle]
    /\ response' = Reply("update_cart_quantity", "ok")
    /\ UNCHANGED <<userprofile, events, orders, carts, nextItemId, chatVars>>

\* ---------------------------------------------------------------- chat
\* can_user_access without the paid-order query
can_user_access_no_order(u, e) ==
    IF ~is_authenticated(u) THEN FALSE
    ELSE IF userprofile[u] = "none" \/ userprofile[u] # "attendee" THEN FALSE
    ELSE TRUE

\* can_user_access without the status='paid' filter
can_user_access_any_status(u, e) ==
    IF ~is_authenticated(u) THEN FALSE
    ELSE IF userprofile[u] = "none" \/ userprofile[u] # "attendee" THEN FALSE
    ELSE \E i \in 1..Len(orders) :
            /\ orders[i].attendee = u
            /\ orders[i].event = e

\* ChatRoom.can_user_access(user), for the room of event e
can_user_access(u, e) ==
    IF ~is_authenticated(u) THEN FALSE
    ELSE IF userprofile[u] = "none" \/ userprofile[u] # "attendee" THEN FALSE
    ELSE \E i \in 1..Len(orders) :
            /\ orders[i].attendee = u
            /\ orders[i].event = e
            /\ orders[i].status = "paid"

\* The join of get_participants: the attendee of every Order row of event e
\* with status paid, one entry per row
RECURSIVE ParticipantRows(_, _)
ParticipantRows(os, e) ==
    IF os = <<>> THEN <<>>
    ELSE (IF Head(os).event = e /\ Head(os).status = "paid"
          THEN <<Head(os).attendee>> ELSE <<>>) \o ParticipantRows(Tail(os), e)

\* .distinct(): every user once
RECURSIVE Distinct(_)
Distinct(sq) ==
    IF sq = <<>> THEN <<>>
    ELSE <<Head(sq)>> \o Distinct(SelectSeq(Tail(sq), LAMBDA x : x # Head(sq)))

\* get_participants without .distinct()
get_participants_no_distinct(e) == ParticipantRows(orders, e)

\* ChatRoom.get_participants(), for the room of event e
get_participants(e) == Distinct(ParticipantRows(orders, e))

\* A direct call of ChatRoom.get_participants, its argument and answer kept
get_participants_call(e) ==
    /\ req' = [req EXCEPT !["r1"] = [Idle EXCEPT !.op = "get_participants",
                                     !.event = e]]
    /\ response' = [op |-> "get_participants", result |-> "ok",
                    body |-> get_participants(e)]
    /\ UNCHANGED <<userprofile, events, orders, cartVars, chatVars>>

\* content.strip() and len(content)
Strip(c) == [pad |-> 0, len |-> c.len]
Length(c) == c.pad + c.len

chat_check(u, e) ==
    IF ~is_authenticated(u) THEN "LoginRequired"
    ELSE IF ~EventExists(e) THEN "NotFound"
    ELSE IF ~can_user_access(u, e) THEN "Forbidden"
    ELSE "proceed"

\* send_message_check without the length limit
send_message_check_no_limit(u, e, method, content) ==
    IF chat_check(u, e) # "proceed" THEN chat_check(u, e)
    ELSE IF method # "POST" THEN "Redirect"
    ELSE IF Length(Strip(content)) = 0 THEN "ValidationError"
    ELSE "proceed"

send_message_check(u, e, method, content) ==
    IF chat_check(u, e) # "proceed" THEN chat_check(u, e)
    ELSE IF method # "POST" THEN "Redirect"
    ELSE IF Length(Strip(content)) = 0 THEN "ValidationError"
    ELSE IF Length(Strip(content)) > MaxContentLength THEN "ValidationError"
    ELSE "proceed"

\* Message rows that in-flight requests are about to insert
PendingMessages ==
    Cardinality({q \in Requests : req[q].op = "send_message"})

send_message_read(r, u, e, method, content) ==
    /\ req[r].pc = "idle"
    /\ LET res == send_message_check(u, e, method, content) IN
       IF res = "proceed"
       THEN /\ Len(messages) + PendingMessages < MaxMessages
            /\ req' = [req EXCEPT ![r] = [Idle EXCEPT !.pc = "room",
                         !.op = "send_message", !.user = u, !.event = e,
                         !.content = Strip(content)]]
            /\ response' = response
       ELSE /\ req' = req
            /\ response' = Reply("send_message", res)
    /\ UNCHANGED <<userprofile, events, orders, cartVars, chatVars>>

\* ChatRoom rows: id and event; the rows of event e
RoomsOf(rms, e) == {rm \in rms : rm.event = e}

\* OneToOneField(Event) without its unique index
ChatRoom_event_unique_off(rms, e) == TRUE

\* event = OneToOneField(Event): an INSERT for an event that has a row fails
ChatRoom_event_unique(rms, e) == RoomsOf(rms, e) = {}

\* The handler of request r goes on with the room it obtained
RoomObtained(r, id) ==
    req' = [req EXCEPT ![r].room = id,
                       ![r].pc = IF req[r].op = "send_message" THEN "message"
                                 ELSE "render"]

\* getOrCreateRoom(event), the lookup: the room of the event, if it has one
chat_room_get(r) ==
    /\ req[r].op \in {"send_message", "chat_room_detail"} /\ req[r].pc = "room"
    /\ IF RoomsOf(rooms, req[r].event) # {}
       THEN RoomObtained(r, (CHOOSE rm \in RoomsOf(rooms, req[r].event) : TRUE).id)
       ELSE req' = [req EXCEPT ![r].pc = "room_create"]
    /\ UNCHANGED <<userprofile, events, orders, cartVars, chatVars, response>>

\* getOrCreateRoom(event), the creation: the INSERT, and when the unique
\* index refuses it because another request created the room meanwhile,
\* the lookup of that room
chat_room_create(r) ==
    /\ req[r].op \in {"send_message", "chat_room_detail"}
    /\ req[r].pc = "room_create"
    /\ IF ChatRoom_event_unique(rooms, req[r].event)
       THEN /\ rooms' = rooms \cup {[id |-> Cardinality(rooms) + 1,
                                     event |-> req[r].event]}
            /\ RoomObtained(r, Cardinality(rooms) + 1)
       ELSE /\ rooms' = rooms
            /\ RoomObtained(r, (CHOOSE rm \in RoomsOf(rooms, req[r].event) : TRUE).id)
    /\ UNCHANGED <<userprofile, events, orders, cartVars, messages, response>>

\* Message row: created_at is auto_now_add (models.py:137)
NewMessage(e, u, content, t) ==
    [room |-> e, sender |-> u, content |-> content, created_at |-> t]

\* send_message_create that writes over the rows of the table
send_message_create_replace(r) ==
    /\ req[r].op = "send_message" /\ req[r].pc = "message"
    /\ \E t \in Now(messages) :
          messages' = <<NewMessage(req[r].event, req[r].user, req[r].content, t)>>
    /\ req' = [req EXCEPT ![r] = Idle]
    /\ response' = Reply("send_message", "ok")
    /\ UNCHANGED <<userprofile, events, orders, cartVars, rooms>>

send_message_create(r) ==
    /\ req[r].op = "send_message" /\ req[r].pc = "message"
    /\ \E t \in Now(messages) :
          messages' = Append(messages,
                        NewMessage(req[r].event, req[r].user, req[r].content, t))
    /\ req' = [req EXCEPT ![r] = Idle]
    /\ response' = Reply("send_message", "ok")
    /\ UNCHANGED <<userprofile, events, orders, cartVars, rooms>>

\* The Message rows of the room of event e, each with its id
RoomRows(ms, e) ==
    {[id |-> i, room |-> ms[i].room, sender |-> ms[i].sender,
      content |-> ms[i].content, created_at |-> ms[i].created_at] :
        i \in {j \in 1..Len(ms) : ms[j].room = e}}

\* Meta.ordering = ['created_at'] (models.py:140-141): ORDER BY created_at,
\* which leaves the order of rows with equal created_at to the database
Listings(ms, e) ==
    {sq \in [1..Cardinality(RoomRows(ms, e)) -> RoomRows(ms, e)] :
        /\ \A i, j \in DOMAIN sq : i # j => sq[i] # sq[j]
        /\ \A i, j \in DOMAIN sq : i < j => sq[i].created_at <= sq[j].created_at}

chat_messages_api(r, u, e) ==
    /\ req[r].pc = "idle"
    /\ LET res == chat_check(u, e) IN
       IF res = "proceed"
       THEN \E body \in Listings(messages, e) :
               response' = [op |-> "chat_messages_api", result |-> "ok",
                            body |-> body]
       ELSE response' = Reply("chat_messages_api", res)
    /\ UNCHANGED <<userprofile, events, orders, cartVars, chatVars, req>>

\* chat_room_detail: the page of the event's chat, for an entitled user
chat_room_detail_read(r, u, e) ==
    /\ req[r].pc = "idle"
    /\ LET res == chat_check(u, e) IN
       IF res = "proceed"
       THEN /\ req' = [req EXCEPT ![r] = [Idle EXCEPT !.pc = "room",
                         !.op = "chat_room_detail", !.user = u, !.event = e]]
            /\ response' = response
       ELSE /\ req' = req
            /\ response' = Reply("chat_room_detail", res)
    /\ UNCHANGED <<userprofile, events, orders, cartVars, chatVars>>

chat_room_detail_render(r) ==
    /\ req[r].op = "chat_room_detail" /\ req[r].pc = "render"
    /\ \E body \in Listings(messages, req[r].event) :
          response' = [op |-> "chat_room_detail", result |-> "ok",
                       body |-> body]
    /\ req' = [req EXCEPT ![r] = Idle]
    /\ UNCHANGED <<userprofile, events, orders, cartVars, chatVars>>

\* A direct call of ChatRoom.can_user_access, its arguments and answer kept
can_user_access_call(u, e) ==
    /\ req' = [req EXCEPT !["r1"] = [Idle EXCEPT !.op = "can_user_access",
                                     !.user = u, !.event = e]]
    /\ response' = Reply("can_user_access",
                         IF can_user_access(u, e) THEN "True" ELSE "False")
    /\ UNCHANGED <<userprofile, events, orders, cartVars, chatVars>>

\* ------------------------------------------------ moderation actions
Notes == {"", "spam"}

\* moderation_check without the role test
moderation_check_any_role(u, e, method) ==
    IF ~is_authenticated(u) THEN "LoginRequired"
    ELSE IF ~EventExists(e) THEN "NotFound"
    ELSE IF method # "POST" THEN "Redirect"
    ELSE "proceed"

moderation_check(u, e, method) ==
    IF ~is_authenticated(u) THEN "LoginRequired"
    ELSE IF ~has_user_type(u, "administrator") THEN "PermissionDenied"
    ELSE IF ~EventExists(e) THEN "NotFound"
    ELSE IF method # "POST" THEN "Redirect"
    ELSE "proceed"

\* Event.approve that leaves is_published as it was
ApprovedRow_keep_published(row, u, notes) ==
    [row EXCEPT !.moderation_status = "approved",
                !.moderated_by = u, !.moderated_at = 1,
                !.moderation_notes = notes]

\* Event.approve(admin, notes)
ApprovedRow(row, u, notes) ==
    [row EXCEPT !.moderation_status = "approved", !.is_published = TRUE,
                !.moderated_by = u, !.moderated_at = 1,
                !.moderation_notes = notes]

\* Event.reject that leaves is_published as it was
RejectedRow_keep_published(row, u, notes) ==
    [row EXCEPT !.moderation_status = "rejected",
                !.moderated_by = u, !.moderated_at = 1,
                !.moderation_notes = notes]

\* Event.reject(admin, notes)
RejectedRow(row, u, notes) ==
    [row EXCEPT !.moderation_status = "rejected", !.is_published = FALSE,
                !.moderated_by = u, !.moderated_at = 1,
                !.moderation_notes = notes]

\* is_approved that looks at the status alone
is_approved_status_only(row) == row.moderation_status = "approved"

\* Event.is_approved
is_approved(row) == row.moderation_status = "approved" /\ row.is_published

\* A read of Event.is_approved on event e, its argument and answer kept
is_approved_call(e) ==
    /\ e \in 1..Len(events)
    /\ req' = [req EXCEPT !["r1"] = [Idle EXCEPT !.op = "is_approved",
                                     !.event = e]]
    /\ response' = Reply("is_approved",
                         IF is_approved(events[e]) THEN "True" ELSE "False")
    /\ UNCHANGED <<userprofile, events, orders, cartVars, chatVars>>

admin_approve_event(r, u, e, method, notes) ==
    /\ req[r].pc = "idle"
    /\ LET res == moderation_check(u, e, method) IN
       IF res = "proceed"
       THEN /\ events' = [events EXCEPT ![e] = ApprovedRow(events[e], u, notes)]
            /\ response' = Reply("admin_approve_event", "ok")
       ELSE /\ events' = events
            /\ response' = Reply("admin_approve_event", res)
    /\ UNCHANGED <<userprofile, orders, req, cartVars, chatVars>>

\* admin_reject_event_check accepting empty notes
admin_reject_event_check_any_notes(u, e, method, notes) ==
    moderation_check(u, e, method)

\* reject requires non-empty notes
admin_reject_event_check(u, e, method, notes) ==
    IF moderation_check(u, e, method) = "proceed" /\ notes = ""
    THEN "ValidationError"
    ELSE moderation_check(u, e, method)

admin_reject_event(r, u, e, method, notes) ==
    /\ req[r].pc = "idle"
    /\ LET res == admin_reject_event_check(u, e, method, notes) IN
       IF res = "proceed"
       THEN /\ events' = [events EXCEPT ![e] = RejectedRow(events[e], u, notes)]
            /\ response' = Reply("admin_reject_event", "ok")
       ELSE /\ events' = events
            /\ response' = Reply("admin_reject_event", res)
    /\ UNCHANGED <<userprofile, orders, req, cartVars, chatVars>>

\* ------------------------------------------------------------ listing
\* str.lower() on one character
Lower(c) == CASE c = "R" -> "r" [] c = "O" -> "o" [] OTHER -> c

LowerText(s) == [i \in 1..Len(s) |-> Lower(s[i])]

Reverse(s) == [i \in 1..Len(s) |-> s[Len(s) + 1 - i]]

RECURSIVE LStrip(_)
LStrip(s) == IF s # <<>> /\ Head(s) = " " THEN LStrip(Tail(s)) ELSE s

\* str.strip()
StripText(s) == Reverse(LStrip(Reverse(LStrip(s))))

\* field__icontains=needle: needle occurs in the field, letter case ignored
icontains(hay, needle) ==
    \E k \in 0..(Len(hay) - Len(needle)) :
        \A i \in 1..Len(needle) : Lower(hay[k + i]) = Lower(needle[i])

\* A price parameter after strip(): blank, a decimal number (in cents), or
\* text on which Decimal() raises InvalidOperation
PriceInputs == {NoPrice, [kind |-> "text", cents |-> 0]}
                  \cup [kind : {"decimal"}, cents : Prices]

\* A page or page_size parameter: missing, an integer, or text on which
\* int() raises ValueError
PageInputs == {NoPage, [kind |-> "text", n |-> 0]}
                 \cup [kind : {"int"}, n : {-1, 0, 1, 2, 3, 101}]

NameInputs == {<<>>, <<" ">>, <<"r", "O">>, <<" ", "o">>}
LocationInputs == {<<>>, <<"o">>, <<"R", " ">>}

\* request.GET of index and events_api
Queries == [name : NameInputs, price_min : PriceInputs, price_max : PriceInputs,
            location : LocationInputs, page : PageInputs, page_size : PageInputs]

\* Event.objects.filter(is_published=True)
PublishedEvents(evs) == {i \in 1..Len(evs) : evs[i].is_published}

\* if name_filter: events.filter(title__icontains=name_filter)
FilterName(evs, ids, name) ==
    IF name # <<>> THEN {i \in ids : icontains(evs[i].title, name)} ELSE ids

\* FilterPriceMin with an exclusive bound
FilterPriceMin_exclusive(evs, ids, p) ==
    IF p.kind = "decimal" THEN {i \in ids : evs[i].ticket_price > p.cents}
    ELSE ids

\* events.filter(ticket_price__gte=Decimal(price_min)) where it parses
FilterPriceMin(evs, ids, p) ==
    IF p.kind = "decimal" THEN {i \in ids : evs[i].ticket_price >= p.cents}
    ELSE ids

\* events.filter(ticket_price__lte=Decimal(price_max)) where it parses
FilterPriceMax(evs, ids, p) ==
    IF p.kind = "decimal" THEN {i \in ids : evs[i].ticket_price <= p.cents}
    ELSE ids

\* if location_filter: events.filter(venue__icontains=location_filter)
FilterLocation(evs, ids, loc) ==
    IF loc # <<>> THEN {i \in ids : icontains(evs[i].venue, loc)} ELSE ids

\* The queryset both views build before ordering it
FilteredEvents(evs, q) ==
    FilterLocation(evs,
        FilterPriceMax(evs,
            FilterPriceMin(evs,
                FilterName(evs, PublishedEvents(evs), StripText(q.name)),
                q.price_min),
            q.price_max),
        StripText(q.location))

\* An Event as the listing shows it
EventData(evs, i) ==
    [id |-> i, title |-> evs[i].title, venue |-> evs[i].venue,
     ticket_price |-> evs[i].ticket_price,
     ticket_availability |-> evs[i].ticket_availability,
     organizer |-> evs[i].organizer, is_published |-> evs[i].is_published,
     created_at |-> evs[i].created_at]

\* events.order_by('-created_at'): the rows newest first, rows of equal
\* created_at in whichever order the database returns them
OrderedEvents(evs, ids) ==
    {sq \in [1..Cardinality(ids) -> {EventData(evs, i) : i \in ids}] :
        /\ \A i, j \in DOMAIN sq : i # j => sq[i] # sq[j]
        /\ \A i, j \in DOMAIN sq : i < j => sq[i].created_at >= sq[j].created_at}

\* index: the filtered and ordered events, an unparseable price ignored;
\* the request's parameters are kept
index(r, q) ==
    /\ req[r].pc = "idle"
    /\ req' = [req EXCEPT ![r] = [Idle EXCEPT !.op = "index", !.query = q]]
    /\ \E listing \in OrderedEvents(events, FilteredEvents(events, q)) :
          response' = [op |-> "index", result |-> "ok", body |-> <<listing>>]
    /\ UNCHANGED <<userprofile, events, orders, cartVars, chatVars>>

\* events_api_check that lets every price through
events_api_check_lenient(q) == "proceed"

\* events_api answers status 400 for a price on which Decimal() raises
events_api_check(q) ==
    IF q.price_min.kind = "text" THEN "InvalidPriceMin"
    ELSE IF q.price_max.kind = "text" THEN "InvalidPriceMax"
    ELSE "proceed"

DefaultPageSize == 10
MaxPageSize == 100

Min(a, b) == IF a < b THEN a ELSE b
Max(a, b) == IF a > b THEN a ELSE b

\* page_size = max(min(int(page_size), 100), 1), 10 where int() raises
PageSize(p) ==
    CASE p.kind = "missing" -> DefaultPageSize
      [] p.kind = "text" -> DefaultPageSize
      [] OTHER -> Max(Min(p.n, MaxPageSize), 1)

\* page_number = max(int(page), 1), 1 where int() raises
PageNumber(p) ==
    CASE p.kind = "missing" -> 1
      [] p.kind = "text" -> 1
      [] OTHER -> Max(p.n, 1)

\* Paginator.num_pages with allow_empty_first_page and no orphans
NumPages(count, size) == (Max(count, 1) + size - 1) \div size

\* ServedPage that answers the last page for a number past it
ServedPage_last(count, size, number) ==
    IF number > NumPages(count, size) THEN NumPages(count, size) ELSE number

\* paginator.page(page_number), page 1 where it raises EmptyPage
ServedPage(count, size, number) ==
    IF number > NumPages(count, size) THEN 1 ELSE number

\* Page.object_list: object_list[bottom:top]
PageSlice(listing, size, number) ==
    SubSeq(listing, (number - 1) * size + 1, Min(number * size, Len(listing)))

\* The JSON body of events_api; None is written 0
EventsPage(listing, p, ps) ==
    LET count == Len(listing)
        size == PageSize(ps)
        number == ServedPage(count, size, PageNumber(p))
        pages == NumPages(count, size)
    IN [count |-> count, page |-> number, page_size |-> size,
        total_pages |-> pages,
        has_next |-> number < pages, has_previous |-> number > 1,
        next_page |-> IF number < pages THEN number + 1 ELSE 0,
        previous_page |-> IF number > 1 THEN number - 1 ELSE 0,
        results |-> PageSlice(listing, size, number)]

\* events_api: one page of the filtered and ordered events; the request's
\* parameters are kept
events_api(r, q) ==
    /\ req[r].pc = "idle"
    /\ req' = [req EXCEPT ![r] = [Idle EXCEPT !.op = "events_api", !.query = q]]
    /\ LET res == events_api_check(q) IN
       IF res = "proceed"
       THEN \E listing \in OrderedEvents(events, FilteredEvents(events, q)) :
               response' = [op |-> "events_api", result |-> "ok",
                            body |-> <<EventsPage(listing, q.page, q.page_size)>>]
       ELSE response' = Reply("events_api", res)
    /\ UNCHANGED <<userprofile, events, orders, cartVars, chatVars>>

\* ------------------------------------------------------ specifications
\* Inputs of a specification: who sends which request, and the methods,
\* forms, quantities and event ids the requests carry
AllInputs == [buyers |-> Callers, organizers |-> Callers, admins |-> Callers,
              methods |-> Methods, forms |-> Forms, qtys |-> QtyInputs,
              events |-> EventIds, contents |-> Contents,
              queries |-> Queries]

\* The handlers that write Event and Order rows
PurchaseStep(r, I) ==
    \/ \E u \in I.organizers, m \in I.methods, f \in I.forms :
          create_event(r, u, m, f)
    \/ \E u \in I.buyers, e \in I.events, m \in I.methods, q \in I.qtys :
          buy_ticket_read(r, u, e, m, q)
    \/ buy_ticket_create(r)
    \/ buy_ticket_write(r)
    \/ \E u \in I.organizers, e \in I.events, m \in I.methods, f \in I.forms :
          edit_event_read(r, u, e, m, f)
    \/ edit_event_save(r)

\* The cart handlers
CartStep(r, I) ==
    \/ \E u \in I.buyers, e \in I.events, m \in I.methods, q \in I.qtys :
          add_to_cart_read(r, u, e, m, q)
    \/ add_to_cart_cart(r)
    \/ add_to_cart_item(r)
    \/ add_to_cart_item_create(r)
    \/ add_to_cart_update(r)

\* The handlers of the cart page
CartPageStep(r, I) ==
    \/ \E u \in I.buyers : view_cart(r, u)
    \/ \E u \in I.buyers, id \in 1..MaxItemId : remove_from_cart_read(r, u, id)
    \/ remove_from_cart_delete(r)
    \/ \E u \in I.buyers, id \in 1..MaxItemId, m \in I.methods, q \in I.qtys :
          update_cart_quantity_read(r, u, id, m, q)
    \/ update_cart_quantity_event(r)
    \/ update_cart_quantity_save(r)

\* The chat handlers
ChatStep(r, I) ==
    \/ \E u \in I.buyers, e \in I.events, m \in I.methods, c \in I.contents :
          send_message_read(r, u, e, m, c)
    \/ chat_room_get(r)
    \/ chat_room_create(r)
    \/ send_message_create(r)
    \/ \E u \in I.buyers, e \in I.events : chat_messages_api(r, u, e)
    \/ \E u \in I.buyers, e \in I.events : chat_room_detail_read(r, u, e)
    \/ chat_room_detail_render(r)

ModerationStep(r, I) ==
    \/ \E u \in I.admins, e \in I.events, m \in I.methods, n \in Notes :
          admin_approve_event(r, u, e, m, n)
    \/ \E u \in I.admins, e \in I.events, m \in I.methods, n \in Notes :
          admin_reject_event(r, u, e, m, n)

\* Parallel workers: purchases, edits and moderation interleave at their
\* database statements
RaceInputs == [buyers |-> {"alice", "bob"}, organizers |-> {"olga"},
               admins |-> {"adam"}, methods |-> {"POST"},
               forms |-> {f \in Forms : f.ticket_price = 5000},
               qtys |-> {q \in QtyInputs : q.kind = "int"},
               events |-> EventTable, contents |-> Contents]

NextRace ==
    \E r \in Requests : PurchaseStep(r, RaceInputs) \/ ModerationStep(r, RaceInputs)

SpecRace == Init /\ [][NextRace]_vars

\* One worker: a handler runs to its end before the next request starts
SeqInputs == [buyers |-> {"alice", "olga", Anonymous},
              organizers |-> {"alice", "olga", Anonymous},
              admins |-> {"adam"}, methods |-> Methods,
              forms |-> Forms, qtys |-> QtyInputs, events |-> EventIds, contents |-> Contents]

NextSeq == PurchaseStep("r1", SeqInputs)

SpecSeq == Init /\ [][NextSeq]_vars

\* Parallel workers adding to the carts of an event whose availability
\* the organizer set at creation
CartRaceInputs == [buyers |-> {"alice", "bob"}, organizers |-> {"olga"},
                   admins |-> {"adam"}, methods |-> {"POST"},
                   forms |-> {f \in Forms : f.ticket_price = 5000 /\ f.is_published},
                   qtys |-> {q \in QtyInputs : q.kind = "int"},
                   events |-> EventTable, contents |-> Contents]

NextCartRace ==
    \E r \in Requests :
        \/ \E u \in CartRaceInputs.organizers, f \in CartRaceInputs.forms :
               create_event(r, u, "POST", f)
        \/ CartStep(r, CartRaceInputs)

SpecCartRace == Init /\ [][NextCartRace]_vars

\* One worker serving cart requests, purchases and organizer edits
CartSeqInputs == [buyers |-> {"alice", "bob", "olga"}, organizers |-> {"olga"},
                  admins |-> {"adam"}, methods |-> Methods,
                  forms |-> {f \in Forms : f.ticket_price = 5000 /\ f.is_published},
                  qtys |-> QtyInputs, events |-> EventIds, contents |-> Contents]

NextCartSeq == PurchaseStep("r1", CartSeqInputs) \/ CartStep("r1", CartSeqInputs)

SpecCartSeq == Init /\ [][NextCartSeq]_vars

\* Parallel workers serving purchases of one ticket and the chat
ChatInputs == [buyers |-> {"alice", "bob", "olga", Anonymous},
               organizers |-> {"olga"},
               admins |-> {"adam"}, methods |-> {"POST"},
               forms |-> {f \in Forms : /\ f.ticket_price = 5000 /\ f.is_published
                                        /\ f.ticket_availability = MaxAvail},
               qtys |-> {[kind |-> "int", n |-> 1]},
               events |-> EventTable,
               contents |-> {c \in Contents : c.len # 2}]

NextChat ==
    \E r \in Requests :
        \/ \E u \in ChatInputs.organizers, f \in ChatInputs.forms :
               create_event(r, u, "POST", f)
        \/ \E u \in ChatInputs.buyers, e \in ChatInputs.events, q \in ChatInputs.qtys :
               buy_ticket_read(r, u, e, "POST", q)
        \/ buy_ticket_create(r)
        \/ buy_ticket_write(r)
        \/ ChatStep(r, ChatInputs)

SpecChat == Init /\ [][NextChat]_vars

\* ChatRoom.can_user_access as a function of the tables: any profiles,
\* any Order table of up to two rows
AccessOrders ==
    [attendee : {"alice", "bob"}, event : EventIds, quantity : {1},
     unit_price : {5000}, status : {"paid", "pending", "cancelled"}]

InitAccess ==
    /\ userprofile \in [Users -> {"attendee", "event_organizer", "administrator", "none"}]
    /\ userprofile["bob"] = "attendee" /\ userprofile["olga"] = "event_organizer"
    /\ userprofile["adam"] = "administrator"
    /\ events = [e \in EventIds |-> [NoRow EXCEPT !.organizer = "olga"]]
    /\ orders \in {<<>>} \cup {<<a>> : a \in AccessOrders}
                  \cup {<<a, b>> : a \in AccessOrders, b \in AccessOrders}
    /\ carts = {} /\ items = {} /\ nextItemId = 1
    /\ rooms = {} /\ messages = <<>>
    /\ req = [r \in Requests |-> Idle]
    /\ response = NoResponse

NextAccess == \E u \in Callers, e \in EventIds : can_user_access_call(u, e)

SpecAccess == InitAccess /\ [][NextAccess]_vars

\* can_user_access and get_participants called on the same tables
NextEntitlement ==
    \/ \E u \in Callers, e \in EventIds : can_user_access_call(u, e)
    \/ \E e \in EventIds : get_participants_call(e)

SpecEntitlement == InitAccess /\ [][NextEntitlement]_vars

\* One worker serving organizers' creations and edits and the moderation
\* requests of every kind of caller; alice is an attendee or a second
\* administrator, bob an attendee or a second organizer
ModerationInputs == [buyers |-> Callers, organizers |-> Callers,
                     admins |-> Callers, methods |-> Methods,
                     forms |-> {f \in Forms : f.ticket_price = 5000},
                     qtys |-> QtyInputs, events |-> EventIds,
                     contents |-> Contents]

InitModeration ==
    /\ userprofile \in [Users -> {"attendee", "event_organizer", "administrator"}]
    /\ userprofile["alice"] \in {"attendee", "administrator"}
    /\ userprofile["bob"] \in {"attendee", "event_organizer"}
    /\ userprofile["olga"] = "event_organizer"
    /\ userprofile["adam"] = "administrator"
    /\ events = <<>>
    /\ orders = <<>>
    /\ carts = {} /\ items = {} /\ nextItemId = 1
    /\ rooms = {} /\ messages = <<>>
    /\ req = [r \in Requests |-> Idle]
    /\ response = NoResponse

NextModeration ==
    \/ \E u \in ModerationInputs.organizers, m \in ModerationInputs.methods,
          f \in ModerationInputs.forms : create_event("r1", u, m, f)
    \/ \E u \in ModerationInputs.organizers, e \in ModerationInputs.events,
          m \in ModerationInputs.methods, f \in ModerationInputs.forms :
             edit_event_read("r1", u, e, m, f)
    \/ edit_event_save("r1")
    \/ ModerationStep("r1", ModerationInputs)

SpecModeration == InitModeration /\ [][NextModeration]_vars

\* get_participants between purchases, over an Order table that may hold
\* one earlier row of any status
ParticipantsInputs == [buyers |-> {"alice", "bob"}, organizers |-> {"olga"},
                       admins |-> {"adam"}, methods |-> {"POST"},
                       forms |-> Forms, qtys |-> {[kind |-> "int", n |-> 1]},
                       events |-> EventIds, contents |-> Contents]

InitParticipants ==
    /\ userprofile = [u \in Users |->
          CASE u \in {"alice", "bob"} -> "attendee"
            [] u = "olga" -> "event_organizer"
            [] OTHER -> "administrator"]
    /\ events = [e \in EventIds |->
                    [NoRow EXCEPT !.organizer = "olga", !.ticket_price = 5000,
                                  !.ticket_availability = MaxAvail]]
    /\ orders \in {<<>>} \cup {<<a>> : a \in AccessOrders}
    /\ carts = {} /\ items = {} /\ nextItemId = 1
    /\ rooms = {} /\ messages = <<>>
    /\ req = [r \in Requests |-> Idle]
    /\ response = NoResponse

NextParticipants ==
    \/ \E u \in ParticipantsInputs.buyers, e \in ParticipantsInputs.events,
          q \in ParticipantsInputs.qtys : buy_ticket_read("r1", u, e, "POST", q)
    \/ buy_ticket_create("r1")
    \/ buy_ticket_write("r1")
    \/ \E e \in ParticipantsInputs.events : get_participants_call(e)

SpecParticipants == InitParticipants /\ [][NextParticipants]_vars

\* One worker serving every cart request and purchases; bob is an attendee
\* or a user without a profile
CartOpsInputs == [buyers |-> Users, organizers |-> {"olga"},
                  admins |-> {"adam"}, methods |-> Methods,
                  forms |-> {f \in Forms : /\ f.ticket_price = 5000 /\ f.is_published
                                           /\ f.ticket_availability = MaxAvail},
                  qtys |-> QtyInputs, events |-> EventTable,
                  contents |-> Contents]

InitCartOps ==
    /\ userprofile \in [Users -> {"attendee", "event_organizer", "administrator", "none"}]
    /\ userprofile["alice"] = "attendee"
    /\ userprofile["bob"] \in {"attendee", "none"}
    /\ userprofile["olga"] = "event_organizer"
    /\ userprofile["adam"] = "administrator"
    /\ events = <<>>
    /\ orders = <<>>
    /\ carts = {} /\ items = {} /\ nextItemId = 1
    /\ rooms = {} /\ messages = <<>>
    /\ req = [r \in Requests |-> Idle]
    /\ response = NoResponse

NextCartOps ==
    \/ \E u \in CartOpsInputs.organizers, f \in CartOpsInputs.forms :
          create_event("r1", u, "POST", f)
    \/ \E u \in CartOpsInputs.buyers, e \in CartOpsInputs.events,
          m \in CartOpsInputs.methods, q \in CartOpsInputs.qtys :
             buy_ticket_read("r1", u, e, m, q)
    \/ buy_ticket_create("r1")
    \/ buy_ticket_write("r1")
    \/ CartStep("r1", CartOpsInputs)
    \/ CartPageStep("r1", CartOpsInputs)

SpecCartOps == InitCartOps /\ [][NextCartOps]_vars

\* The public listing and the JSON query over a table of events that were
\* created by olga and then left pending, approved or rejected by adam,
\* and possibly edited again by olga
ListingForms ==
    {[NoForm EXCEPT !.title = tv[1], !.venue = tv[2], !.ticket_price = tv[3],
                    !.ticket_availability = MaxAvail, !.is_published = b] :
        tv \in {<<DefaultTitle, DefaultVenue, 5000>>, <<<<"o", "r">>, <<"r">>, 7550>>},
        b \in BOOLEAN}

ListingRows ==
    LET created == {NewEventRow("olga", f) : f \in ListingForms}
        moderated == {ApprovedRow(row, "adam", "") : row \in created}
                        \cup {RejectedRow(row, "adam", "no") : row \in created}
    IN created \cup {EditedRow(row, f) : row \in moderated, f \in ListingForms}

\* The Event tables of up to MaxListed of the given rows, each row
\* inserted at the clock value of the row before it or later
EventTables(rows) ==
    {evs \in UNION {[1..n -> {[row EXCEPT !.created_at = t] :
                                 row \in rows, t \in 1..MaxListed}] :
                       n \in 0..MaxListed} :
        /\ evs # <<>> => evs[1].created_at = 1
        /\ \A i \in 1..(Len(evs) - 1) : evs[i + 1].created_at \in Now(SubSeq(evs, 1, i))}

ListingTables == EventTables(ListingRows)

\* Requests that vary the filters with the default page, a request with
\* a whitespace name, and requests that vary page and page_size
ListingInputs ==
    [queries |->
        {q \in Queries :
            /\ q.name \in {<<>>, <<"r", "O">>}
            /\ q.location \in {<<>>, <<"o">>}
            /\ q.price_max.kind # "decimal" \/ q.price_max.cents = 5000
            /\ q.price_min.kind # "decimal" \/ q.price_min.cents = 7550
            /\ q.page = NoPage /\ q.page_size = NoPage}
        \cup {[NoQuery EXCEPT !.name = <<" ">>]}
        \cup
        {q \in Queries :
            /\ q.name = <<>> /\ q.location = <<>>
            /\ q.price_min = NoPrice /\ q.price_max = NoPrice
            /\ q.page \in {NoPage, [kind |-> "text", n |-> 0]}
                             \cup [kind : {"int"}, n : {-1, 2, 3}]
            /\ q.page_size \in {NoPage, [kind |-> "text", n |-> 0]}
                             \cup [kind : {"int"}, n : {0, 1, 2, 101}]}]

ListingStep(r, I) ==
    \/ \E q \in I.queries : index(r, q)
    \/ \E q \in I.queries : events_api(r, q)

InitListing ==
    /\ userprofile = [u \in Users |->
          CASE u \in {"alice", "bob"} -> "attendee"
            [] u = "olga" -> "event_organizer"
            [] OTHER -> "administrator"]
    /\ events \in ListingTables
    /\ orders = <<>>
    /\ carts = {} /\ items = {} /\ nextItemId = 1
    /\ rooms = {} /\ messages = <<>>
    /\ req = [r \in Requests |-> Idle]
    /\ response = NoResponse

NextListing == ListingStep("r1", ListingInputs)

SpecListing == InitListing /\ [][NextListing]_vars

\* The same requests over a table of events as create_event wrote them
SearchRows == {NewEventRow("olga", f) : f \in ListingForms}

InitSearch ==
    /\ userprofile = [u \in Users |->
          CASE u \in {"alice", "bob"} -> "attendee"
            [] u = "olga" -> "event_organizer"
            [] OTHER -> "administrator"]
    /\ events \in EventTables(SearchRows)
    /\ orders = <<>>
    /\ carts = {} /\ items = {} /\ nextItemId = 1
    /\ rooms = {} /\ messages = <<>>
    /\ req = [r \in Requests |-> Idle]
    /\ response = NoResponse

SpecSearch == InitSearch /\ [][NextListing]_vars

\* Event.is_approved read on the events of such a table
NextApproved == \E e \in 1..MaxListed : is_approved_call(e)

SpecApproved == InitListing /\ [][NextApproved]_vars

Next ==
    \E r \in Requests :
        \/ PurchaseStep(r, AllInputs) \/ CartStep(r, AllInputs)
        \/ CartPageStep(r, AllInputs) \/ ListingStep(r, AllInputs)
        \/ ChatStep(r, AllInputs) \/ ModerationStep(r, AllInputs)

Spec == Init /\ [][Next]_vars
\* ---------------------------------------------------------- properties
\* Total quantity of the Order rows of event e
RECURSIVE Sold(_, _)
Sold(os, e) ==
    IF os = <<>> THEN 0
    ELSE (IF Head(os).event = e THEN Head(os).quantity ELSE 0) + Sold(Tail(os), e)

IntQty(n) == [kind |-> "int", n |-> n]

\* C1: two purchases in flight against the same event that both read
\* availability A and both created their Order have Q1 + Q2 <= A
C1_NoOversell ==
    \A r1, r2 \in Requests :
        ( /\ r1 # r2
          /\ req[r1].op = "buy_ticket" /\ req[r2].op = "buy_ticket"
          /\ req[r1].event = req[r2].event
          /\ req[r1].pc = "write" /\ req[r2].pc = "write"
          /\ req[r1].ev.ticket_availability = req[r2].ev.ticket_availability )
        => req[r1].quantity + req[r2].quantity <= req[r1].ev.ticket_availability

\* A step that ends an organizer's edit of event e, or creates the event
EditSaved(e) ==
    \E r \in Requests :
        req[r].op = "edit_event" /\ req[r].pc = "save" /\ req[r].event = e
        /\ req'[r].pc = "idle"

\* C2: purchase is atomic: apart from organizer edits, no step changes
\* ticket_availability + (quantities of the event's Orders), so that every
\* observable state has initial availability = availability + sold
C2_PurchaseAtomic ==
    [][\A e \in EventTable :
          (EventExists(e) /\ ~EditSaved(e)) =>
             events'[e].ticket_availability + Sold(orders', e)
                = events[e].ticket_availability + Sold(orders, e)]_vars

\* C3: a purchase that runs alone, of quantity Q with 1 <= Q <= A at price
\* P: its read step sees A and P and writes nothing, its create step
\* appends exactly one Order (Q, paid, P), its last step leaves A - Q
C3_PurchaseAlone ==
    [][\A r \in Requests :
        LET e == req'[r].event
            d == req[r].event IN
        /\ (req[r].pc = "idle" /\ req'[r].op = "buy_ticket") =>
              /\ req'[r].ev.ticket_availability = events[e].ticket_availability
              /\ req'[r].ev.ticket_price = events[e].ticket_price
              /\ 1 <= req'[r].quantity
              /\ req'[r].quantity <= events[e].ticket_availability
              /\ has_user_type(req'[r].user, "attendee")
              /\ orders' = orders /\ events' = events
        /\ (req[r].op = "buy_ticket" /\ req[r].pc = "create" /\ req'[r].pc = "write") =>
              /\ orders' = Append(orders,
                    [attendee |-> req[r].user, event |-> d,
                     quantity |-> req[r].quantity,
                     unit_price |-> events[d].ticket_price, status |-> "paid"])
              /\ events' = events
        /\ (req[r].op = "buy_ticket" /\ req[r].pc = "write" /\ req'[r].pc = "idle") =>
              /\ events'[d].ticket_availability =
                    events[d].ticket_availability - req[r].quantity
              /\ events'[d].ticket_price = events[d].ticket_price
              /\ orders' = orders
              /\ response' = Reply("buy_ticket", "ok")]_vars

C3_Witness ==
    /\ response = Reply("buy_ticket", "ok")
    /\ Len(orders) = 1
    /\ orders[1].quantity = 2 /\ orders[1].unit_price = 7550
    /\ events[1].ticket_availability = 0

\* C4: ticket_availability >= 0 for every event in every reachable state
C4_AvailabilityNonNegative ==
    \A e \in 1..Len(events) : events[e].ticket_availability >= 0

C4_Witness ==
    /\ Len(orders) = 2
    /\ Len(events) = 1 /\ events[1].ticket_availability = 0
    /\ events[1].moderation_status = "rejected"

\* A step in which buy_ticket answered SoldOut or InsufficientAvailability
BuyRefused ==
    /\ response'.op = "buy_ticket"
    /\ response'.result \in {"SoldOut", "InsufficientAvailability"}
    /\ req' = req

\* C5 (as stated): every purchase by an attendee of Q > A fails with
\* InsufficientAvailability, creates no Order and leaves availability A
C5_Original ==
    [][/\ \A u \in Users, e \in EventIds, q \in 1..MaxQty :
            ( /\ EventExists(e) /\ has_user_type(u, "attendee")
              /\ q > events[e].ticket_availability )
            => buy_ticket_check(u, e, "POST", IntQty(q)) = "InsufficientAvailability"
       /\ BuyRefused => (orders' = orders /\ events' = events)]_vars

\* C5 (amended): a purchase by an attendee of Q > A fails with
\* InsufficientAvailability when A >= 1 and with SoldOut when A = 0; in both
\* cases it creates no Order and leaves availability A
C5_Amended ==
    [][/\ \A u \in Users, e \in EventIds, q \in 1..MaxQty :
            ( /\ EventExists(e) /\ has_user_type(u, "attendee")
              /\ q > events[e].ticket_availability )
            => buy_ticket_check(u, e, "POST", IntQty(q)) =
                  IF events[e].ticket_availability = 0 THEN "SoldOut"
                  ELSE "InsufficientAvailability"
       /\ BuyRefused => (orders' = orders /\ events' = events)]_vars

C5_Witness ==
    /\ response = Reply("buy_ticket", "InsufficientAvailability")
    /\ Len(events) = 1 /\ events[1].ticket_availability = 1
    /\ orders = <<>>

\* C6: an event with is_published = true has moderation_status = approved
C6_PublishedImpliesApproved ==
    \A e \in 1..Len(events) :
        events[e].is_published => events[e].moderation_status = "approved"
\* A step that ends request r's increment of an existing cart item
AddUpdated(r) ==
    req[r].op = "add_to_cart" /\ req[r].pc = "update" /\ req'[r].pc = "idle"

\* C9: no successful addToCart increment is lost and the limit is kept:
\* each increment that reports success leaves the stored quantity larger by
\* its own quantity, and at most the event's ticket_availability
C9_NoLostIncrement ==
    [][\A r \in Requests :
        (AddUpdated(r) /\ response'.result = "ok") =>
           LET u == req[r].user
               e == req[r].event IN
           /\ ItemsOf(items, u, e) # {} /\ ItemsOf(items', u, e) # {}
           /\ ItemOf(items', u, e).quantity =
                 ItemOf(items, u, e).quantity + req[r].quantity
           /\ ItemOf(items', u, e).quantity <= events'[e].ticket_availability]_vars

\* A step in which add_to_cart answered SoldOut or InsufficientAvailability
AddRefused ==
    /\ response'.op = "add_to_cart"
    /\ response'.result \in {"SoldOut", "InsufficientAvailability"}
    /\ (req' = req \/ \E r \in Requests : AddUpdated(r))

\* What add_to_cart does, one request at a time, to the item of (u, e):
\* created with exactly the requested quantity when absent, q0 + q when
\* present and q0 + q <= availability, otherwise refused with the item
\* unchanged; never a second item for the pair
AddIsAdditive ==
    /\ \A r \in Requests :
          LET u == req[r].user
              e == req[r].event
              q == req[r].quantity IN
          /\ (req[r].op = "add_to_cart" /\ req[r].pc = "item") => items' = items
          /\ (req[r].op = "add_to_cart" /\ req[r].pc = "item_create") =>
                IF ItemsOf(items, u, e) = {}
                THEN /\ \E it \in items' : items' = items \cup {it}
                        /\ it.user = u /\ it.event = e /\ it.quantity = q
                     /\ response' = Reply("add_to_cart", "ok")
                ELSE items' = items
          /\ AddUpdated(r) =>
                LET old == ItemOf(items, u, e) IN
                IF old.quantity + q <= events[e].ticket_availability
                THEN /\ items' = (items \ {old}) \cup
                                    {[old EXCEPT !.quantity = old.quantity + q]}
                     /\ response' = Reply("add_to_cart", "ok")
                ELSE /\ items' = items
                     /\ response' = Reply("add_to_cart", "InsufficientAvailability")
    /\ \A u \in Users, e \in EventIds : Cardinality(ItemsOf(items', u, e)) <= 1
    /\ AddRefused => items' = items

\* The requests the second half of C10 is about: an attendee adds q >= 1
\* to an item of quantity q0 with q0 + q > availability
OverLimit(u, e, q) ==
    /\ EventExists(e) /\ has_user_type(u, "attendee")
    /\ ItemsOf(items, u, e) # {}
    /\ ItemOf(items, u, e).quantity + q > events[e].ticket_availability

\* C10 (as stated): addToCart is additive, and a request over the limit
\* fails with InsufficientAvailability (at once, or at the increment)
C10_Original ==
    [][/\ AddIsAdditive
       /\ \A u \in Users, e \in EventIds, q \in 1..MaxQty :
             OverLimit(u, e, q) =>
                add_to_cart_check(u, e, "POST", IntQty(q))
                   \in {"InsufficientAvailability", "proceed"}]_vars

\* C10 (amended): addToCart is additive, and a request over the limit fails
\* with InsufficientAvailability, or with SoldOut when the availability is 0
C10_Amended ==
    [][/\ AddIsAdditive
       /\ \A u \in Users, e \in EventIds, q \in 1..MaxQty :
             OverLimit(u, e, q) =>
                IF events[e].ticket_availability = 0
                THEN add_to_cart_check(u, e, "POST", IntQty(q)) = "SoldOut"
                ELSE add_to_cart_check(u, e, "POST", IntQty(q))
                        \in {"InsufficientAvailability", "proceed"}]_vars

C10_Witness ==
    /\ response = Reply("add_to_cart", "InsufficientAvailability")
    /\ items = {[id |-> 1, user |-> "alice", event |-> 1, quantity |-> 2]}
    /\ Len(events) = 1 /\ events[1].ticket_availability = 2
\* A paid Order of user u for event e exists
HoldsPaidOrder(u, e) ==
    {i \in DOMAIN orders : orders[i].attendee = u /\ orders[i].event = e
                           /\ orders[i].status = "paid"} # {}

\* canAccess of the specification: an authenticated attendee with a paid Order
Entitled(u, e) ==
    u \in Users /\ userprofile[u] = "attendee" /\ HoldsPaidOrder(u, e)

Denied == {"LoginRequired", "NotFound", "Forbidden"}

\* C7: every Message is inserted for a sender who is entitled at that
\* moment; a send or list request of a caller who is not entitled is
\* denied, inserts no Message and returns no message content
C7_ChatRequiresAccess ==
    [][/\ \A i \in (Len(messages) + 1)..Len(messages') :
             Entitled(messages'[i].sender, messages'[i].room)
       /\ \A u \in Callers, e \in EventIds, c \in Contents :
             ~Entitled(u, e) =>
                /\ send_message_check(u, e, "POST", c) \in Denied
                /\ chat_check(u, e) \in Denied
       /\ ( /\ response'.op \in {"send_message", "chat_messages_api"}
            /\ response'.result \in Denied
            /\ req' = req )
          => (messages' = messages /\ response'.body = <<>>)
       /\ (response'.op = "chat_messages_api" /\ response'.body # <<>>)
          => response'.result = "ok"]_vars

C7_Witness ==
    /\ response = Reply("send_message", "Forbidden")
    /\ Len(messages) = 1 /\ messages[1].sender = "alice"
    /\ ~HoldsPaidOrder("bob", 1)

\* C8: can_user_access is false for an unauthenticated user and for every
\* user whose role is not attendee, and for an attendee it is true exactly
\* when a paid Order for (user, event) exists
C8_AccessRule ==
    /\ \A u \in Callers, e \in EventIds :
          /\ u = Anonymous => ~can_user_access(u, e)
          /\ (u \in Users /\ userprofile[u] # "attendee") => ~can_user_access(u, e)
          /\ (u \in Users /\ userprofile[u] = "attendee") =>
                (can_user_access(u, e) <=> HoldsPaidOrder(u, e))
    /\ response.op = "can_user_access" =>
          (response.result = "True" <=> Entitled(req["r1"].user, req["r1"].event))

C8_Witness ==
    /\ response = Reply("can_user_access", "False")
    /\ req["r1"].user = "alice" /\ req["r1"].event = 1
    /\ userprofile["alice"] = "event_organizer"
    /\ HoldsPaidOrder("alice", 1)

\* A step that ends request r's purchase with the write of ticket_availability
BuyWritten(r) ==
    req[r].op = "buy_ticket" /\ req[r].pc = "write" /\ req'[r].pc = "idle"

\* C11: every change of an existing event's ticket_availability is the
\* last step of a purchase and lowers it by the quantity of that purchase's
\* Order; no other operation changes ticket_availability
C11_OnlyPurchaseDecrements ==
    [][\A e \in 1..Len(events) :
          events'[e].ticket_availability # events[e].ticket_availability =>
             \E r \in Requests :
                /\ BuyWritten(r) /\ req[r].event = e
                /\ events'[e].ticket_availability =
                      events[e].ticket_availability - req[r].quantity
                /\ \E i \in 1..Len(orders) :
                      /\ orders[i].event = e
                      /\ orders[i].quantity = req[r].quantity
                      /\ orders[i].attendee = req[r].user]_vars

\* Order.total_price: quantity x unit_price (models.py:49-51)
total_price(o) == o.quantity * o.unit_price

\* C12: an Order row never changes once created (unit_price, quantity and
\* so total_price stay), and a new Order carries the event's ticket_price
\* in force at the purchase
C12_UnitPriceImmutable ==
    [][/\ Len(orders') >= Len(orders)
       /\ \A i \in 1..Len(orders) :
             /\ orders'[i].unit_price = orders[i].unit_price
             /\ total_price(orders'[i]) = total_price(orders[i])
       /\ \A i \in (Len(orders) + 1)..Len(orders') :
             orders'[i].unit_price = events[orders'[i].event].ticket_price]_vars

C12_Witness ==
    /\ Len(orders) = 2
    /\ orders[1].event = 1 /\ orders[2].event = 1
    /\ orders[1].unit_price = 5000 /\ orders[2].unit_price = 7550
    /\ events[1].ticket_price = 5000
    /\ response = Reply("edit_event", "ok")

\* A step in which create_event inserted an Event row
EventCreated == Len(events') = Len(events) + 1

\* C13: every event inserted by create_event starts with moderation_status
\* pending and is_published false, whatever the form carried
C13_CreatedPendingUnpublished ==
    [][EventCreated =>
          /\ events'[Len(events')].moderation_status = "pending"
          /\ events'[Len(events')].is_published = FALSE]_vars

\* The four moderation columns of an Event row
ModerationFields(row) ==
    <<row.moderation_status, row.moderated_by, row.moderated_at,
      row.moderation_notes>>

\* A step in which a moderation handler answered with the given result
Moderated(op, result) ==
    response' = Reply(op, result) /\ req' = req

\* C14: an administrator's approve proceeds from every prior state and with
\* empty or non-empty notes, and leaves the event approved, published,
\* moderated_by an administrator, moderated_at set and the notes stored,
\* with no other column and no other event changed
C14_Approve ==
    [][/\ \A u \in Users, e \in 1..Len(events) :
             has_user_type(u, "administrator") =>
                moderation_check(u, e, "POST") = "proceed"
       /\ Moderated("admin_approve_event", "ok") =>
             \E e \in 1..Len(events), u \in Users, n \in Notes :
                /\ has_user_type(u, "administrator")
                /\ events' = [events EXCEPT ![e] =
                      [events[e] EXCEPT !.moderation_status = "approved",
                                        !.is_published = TRUE,
                                        !.moderated_by = u,
                                        !.moderated_at = 1,
                                        !.moderation_notes = n]]]_vars

C14_Witness ==
    /\ response = Reply("admin_approve_event", "ok")
    /\ Len(events) = 1
    /\ events[1].moderation_status = "approved" /\ events[1].is_published
    /\ events[1].moderated_by = "alice" /\ events[1].moderated_at = 1
    /\ events[1].moderation_notes = ""

\* C15: an administrator's reject with non-empty notes proceeds from every
\* prior state and leaves the event rejected, unpublished, moderated_by an
\* administrator, moderated_at set and the notes stored
C15_Reject ==
    [][/\ \A u \in Users, e \in 1..Len(events), n \in Notes \ {""} :
             has_user_type(u, "administrator") =>
                admin_reject_event_check(u, e, "POST", n) = "proceed"
       /\ Moderated("admin_reject_event", "ok") =>
             \E e \in 1..Len(events), u \in Users, n \in Notes \ {""} :
                /\ has_user_type(u, "administrator")
                /\ events' = [events EXCEPT ![e] =
                      [events[e] EXCEPT !.moderation_status = "rejected",
                                        !.is_published = FALSE,
                                        !.moderated_by = u,
                                        !.moderated_at = 1,
                                        !.moderation_notes = n]]]_vars

C15_Witness ==
    /\ response = Reply("admin_reject_event", "ok")
    /\ Len(events) = 1
    /\ events[1].moderation_status = "rejected" /\ ~events[1].is_published
    /\ events[1].moderated_by = "alice" /\ events[1].moderation_notes = "spam"

\* C16: an administrator's reject with empty notes is answered
\* ValidationError and leaves every event row as it was
C16_RejectNeedsNotes ==
    [][/\ \A u \in Users, e \in 1..Len(events) :
             has_user_type(u, "administrator") =>
                admin_reject_event_check(u, e, "POST", "") = "ValidationError"
       /\ Moderated("admin_reject_event", "ValidationError") =>
             events' = events]_vars

C16_Witness ==
    /\ response = Reply("admin_reject_event", "ValidationError")
    /\ Len(events) = 1
    /\ events[1].moderation_status = "approved" /\ events[1].is_published
    /\ events[1].moderated_by = "adam" /\ events[1].moderation_notes = "spam"

\* C17: an approve or reject request of a caller who is not an
\* administrator gets a permission error and leaves every event row as it
\* was, and the moderation columns of an event change only in a step in
\* which approve or reject succeeded
C17_AdminOnly ==
    [][/\ \A u \in Callers, e \in EventIds, m \in Methods, n \in Notes :
             ~has_user_type(u, "administrator") =>
                /\ moderation_check(u, e, m) \in {"LoginRequired", "PermissionDenied"}
                /\ admin_reject_event_check(u, e, m, n)
                      \in {"LoginRequired", "PermissionDenied"}
       /\ ( \E op \in {"admin_approve_event", "admin_reject_event"},
               res \in {"LoginRequired", "PermissionDenied"} : Moderated(op, res) )
          => events' = events
       /\ \A e \in 1..Len(events) :
             ModerationFields(events'[e]) # ModerationFields(events[e]) =>
                \/ Moderated("admin_approve_event", "ok")
                \/ Moderated("admin_reject_event", "ok")]_vars

C17_Witness ==
    /\ response = Reply("admin_reject_event", "PermissionDenied")
    /\ Len(events) = 1
    /\ events[1].moderation_status = "pending" /\ events[1].moderated_by = "none"
    /\ userprofile["bob"] = "event_organizer"

RoomReturned(r) ==
    /\ req[r].pc \in {"room", "room_create"}
    /\ req'[r].pc \in {"message", "render"}

\* C19: at most one ChatRoom per event in every state; getOrCreateRoom
\* returns a room of the event, the existing one when the event has a room
\* (also for the request that lost the race to create it), and answers no
\* error
C19_OneRoomPerEvent ==
    [][/\ \A e \in EventIds : Cardinality(RoomsOf(rooms', e)) <= 1
       /\ \A r \in Requests :
             /\ RoomReturned(r) =>
                   /\ \E rm \in RoomsOf(rooms', req[r].event) : rm.id = req'[r].room
                   /\ RoomsOf(rooms, req[r].event) # {} => rooms' = rooms
                   /\ response' = response
             /\ (req[r].pc \in {"room", "room_create"} /\ req'[r] # req[r])
                   => (RoomReturned(r) \/ req'[r].pc = "room_create")]_vars

\* bob's request found no room and is about to INSERT one, after alice's
\* request created the room
C19_Witness ==
    /\ req["r1"].op = "send_message" /\ req["r1"].pc = "room_create"
    /\ req["r1"].user = "bob" /\ req["r1"].event = 1
    /\ req["r2"].op = "chat_room_detail" /\ req["r2"].pc = "render"
    /\ req["r2"].user = "alice" /\ req["r2"].room = 1
    /\ rooms = {[id |-> 1, event |-> 1]}
    /\ messages = <<>>

\* The ids of the CartItem rows
ItemIds(its) == {it.id : it \in its}

\* C20: at most one CartItem per (cart, event) in every state, and an
\* add_to_cart that finds the event in the cart, alone or beside another
\* request, inserts no row: it changes at most the quantity of that item
C20_OneItemPerCartEvent ==
    [][/\ \A u \in Users, e \in EventIds : Cardinality(ItemsOf(items', u, e)) <= 1
       /\ Cardinality(ItemIds(items')) = Cardinality(items')
       /\ \A r \in Requests :
             ( /\ req[r].op = "add_to_cart"
               /\ req[r].pc \in {"item", "item_create", "update"}
               /\ req'[r] # req[r]
               /\ ItemsOf(items, req[r].user, req[r].event) # {} )
             => /\ ItemIds(items') = ItemIds(items)
                /\ \A it \in items' :
                      (it.user # req[r].user \/ it.event # req[r].event)
                         => it \in items]_vars

\* alice's first request found no item and is about to INSERT one, after
\* her second request inserted the item of the pair
C20_Witness ==
    /\ items = {[id |-> 1, user |-> "alice", event |-> 1, quantity |-> 1]}
    /\ req["r1"].op = "add_to_cart" /\ req["r1"].pc = "item_create"
    /\ req["r1"].user = "alice" /\ req["r1"].event = 1
    /\ req["r2"] = Idle
    /\ response = Reply("add_to_cart", "ok")

CartOpNames == {"add_to_cart", "view_cart", "remove_from_cart", "update_cart_quantity"}

\* A step taken by a cart handler: a step of a cart request in flight, or
\* the answer of a cart handler that ends at once
CartOpStep ==
    \/ \E r \in Requests :
          /\ req'[r] # req[r]
          /\ (req[r].op \in CartOpNames \/ req'[r].op \in CartOpNames)
    \/ (req' = req /\ response' # response /\ response'.op \in CartOpNames)

\* C21: no step of a cart handler, whether the request succeeds or fails,
\* changes an Event row (so no ticket_availability) or the Order table
C21_CartLeavesInventory ==
    [][CartOpStep => (events' = events /\ orders' = orders)]_vars

C21_Witness ==
    /\ response = Reply("update_cart_quantity", "ok")
    /\ items = {[id |-> 2, user |-> "alice", event |-> 1, quantity |-> 1]}
    /\ Len(orders) = 1 /\ events[1].ticket_availability = 1

\* The stored row that has the id of the item request r holds
StoredItem(r) == CHOOSE it \in items : it.id = req[r].item.id

\* C22: update_cart_quantity on the caller's own item: n < 1 is answered
\* InvalidInput and n above the event's current ticket_availability
\* InsufficientAvailability, both with the CartItem table unchanged;
\* otherwise the stored quantity becomes exactly n
C22_UpdateQuantity ==
    [][/\ \A u \in Users, it \in items, n \in (-1)..0 :
             (has_user_type(u, "attendee") /\ it.user = u) =>
                update_cart_quantity_check(u, it.id, "POST", IntQty(n)) = "InvalidInput"
       /\ (response' = Reply("update_cart_quantity", "InvalidInput") /\ req' = req)
             => items' = items
       /\ \A r \in Requests :
             /\ (req[r].op = "update_cart_quantity" /\ req[r].pc = "event") =>
                   /\ 1 <= req[r].quantity /\ req[r].item \in items
                   /\ items' = items
                   /\ IF req[r].quantity >
                            events[req[r].item.event].ticket_availability
                      THEN response' = Reply("update_cart_quantity",
                                             "InsufficientAvailability")
                           /\ req'[r] = Idle
                      ELSE req'[r].pc = "save"
             /\ (req[r].op = "update_cart_quantity" /\ req[r].pc = "save") =>
                   /\ items' = (items \ {StoredItem(r)}) \cup
                                  {[StoredItem(r) EXCEPT !.quantity = req[r].quantity]}
                   /\ req[r].quantity <= events[req[r].item.event].ticket_availability
                   /\ response' = Reply("update_cart_quantity", "ok")]_vars

C22_Witness ==
    /\ response = Reply("update_cart_quantity", "ok")
    /\ items = {[id |-> 1, user |-> "alice", event |-> 1, quantity |-> 2],
                [id |-> 2, user |-> "bob", event |-> 1, quantity |-> 1]}
    /\ events[1].ticket_availability = 2
    /\ orders = <<>>

\* C23: remove_from_cart proceeds for the caller's own item whatever its
\* quantity and the event's availability, its delete takes exactly that row
\* out of the table, and an add_to_cart that finds no item of the pair
\* inserts a new row with exactly the requested quantity
C23_RemoveItem ==
    [][/\ \A u \in Users, it \in items :
             (has_user_type(u, "attendee") /\ it.user = u) =>
                remove_from_cart_check(u, it.id) = "proceed"
       /\ \A r \in Requests :
             /\ (req[r].op = "remove_from_cart" /\ req[r].pc = "delete") =>
                   /\ req[r].item \in items
                   /\ items' = items \ {req[r].item}
                   /\ response' = Reply("remove_from_cart", "ok")
             /\ ( /\ req[r].op = "add_to_cart" /\ req[r].pc = "item_create"
                  /\ ItemsOf(items, req[r].user, req[r].event) = {} ) =>
                   \E it \in items' :
                      /\ it \notin items /\ it.id \notin ItemIds(items)
                      /\ items' = items \cup {it}
                      /\ it.user = req[r].user /\ it.event = req[r].event
                      /\ it.quantity = req[r].quantity]_vars

C23_Witness ==
    /\ response = Reply("add_to_cart", "ok")
    /\ items = {[id |-> 2, user |-> "alice", event |-> 1, quantity |-> 1]}
    /\ nextItemId = 3
    /\ Len(orders) = 2 /\ events[1].ticket_availability = 1

\* C24: buy_ticket, add_to_cart, update_cart_quantity, remove_from_cart and
\* view_cart answer PermissionDenied to every authenticated caller whose
\* role is not attendee (for an event that exists), and a request answered
\* PermissionDenied changes no Order, Cart, CartItem or Event row
C24_AttendeeOnly ==
    [][/\ \A u \in {v \in Users : userprofile[v] # "attendee"},
             m \in Methods, q \in {IntQty(0), IntQty(1)} :
                /\ view_cart_check(u) = "PermissionDenied"
                /\ \A e \in 1..Len(events) :
                      /\ buy_ticket_check(u, e, m, q) = "PermissionDenied"
                      /\ add_to_cart_check(u, e, m, q) = "PermissionDenied"
                /\ \A id \in 1..MaxItemId :
                      /\ remove_from_cart_check(u, id) = "PermissionDenied"
                      /\ update_cart_quantity_check(u, id, m, q) = "PermissionDenied"
       /\ ( /\ response'.op \in CartOpNames \cup {"buy_ticket"}
            /\ response'.result = "PermissionDenied"
            /\ req' = req )
          => UNCHANGED <<events, orders, carts, items>>]_vars

C24_Witness ==
    /\ response = Reply("view_cart", "PermissionDenied")
    /\ userprofile["bob"] = "none"
    /\ carts = {"alice"} /\ items = {}
    /\ Len(orders) = 1

\* C25: a purchase by an attendee with quantity < 1 is answered
\* InvalidInput, and one with quantity >= 1 for an event whose availability
\* is 0 is answered SoldOut; a purchase answered InvalidInput or SoldOut
\* creates no Order and changes no Event row
C25_InvalidInputAndSoldOut ==
    [][/\ \A u \in Users, e \in 1..Len(events) :
             has_user_type(u, "attendee") =>
                /\ \A n \in (-1)..0 :
                      buy_ticket_check(u, e, "POST", IntQty(n)) = "InvalidInput"
                /\ \A n \in 1..MaxQty :
                      events[e].ticket_availability = 0 =>
                         buy_ticket_check(u, e, "POST", IntQty(n)) = "SoldOut"
       /\ ( /\ response'.op = "buy_ticket"
            /\ response'.result \in {"InvalidInput", "SoldOut"}
            /\ req' = req )
          => (orders' = orders /\ events' = events)]_vars

C25_Witness ==
    /\ response = Reply("buy_ticket", "SoldOut")
    /\ Len(events) = 1 /\ events[1].ticket_availability = 0
    /\ Len(orders) = 1 /\ orders[1].quantity = 2

\* The elements of a sequence
Range(sq) == {sq[i] : i \in 1..Len(sq)}

\* C26: get_participants(event) holds exactly the users with a paid Order
\* for the event, each once, whatever other Orders exist; an answer is
\* computed from the Order table as it is at the call, and a buyer is in it
\* as soon as the Order of the purchase exists
C26_Participants ==
    /\ \A e \in EventIds :
          /\ Range(get_participants(e)) = {u \in Users : HoldsPaidOrder(u, e)}
          /\ Len(get_participants(e)) =
                Cardinality({u \in Users : HoldsPaidOrder(u, e)})
    /\ (req["r1"].op = "get_participants" /\ response.op = "get_participants") =>
          /\ Range(response.body) = {u \in Users : HoldsPaidOrder(u, req["r1"].event)}
          /\ Len(response.body) = Cardinality(Range(response.body))
    /\ \A r \in Requests :
          (req[r].op = "buy_ticket" /\ req[r].pc = "write") =>
             req[r].user \in Range(get_participants(req[r].event))

C26_Witness ==
    /\ req["r1"].op = "get_participants" /\ req["r1"].event = 1
    /\ response.op = "get_participants"
    /\ response.body = <<"alice">>
    /\ Len(orders) = 2
    /\ \A i \in 1..2 : orders[i] = NewOrder("alice", 1, 1, 5000)

\* A step that ends request r's send_message with the INSERT of the Message
MessageCreated(r) ==
    req[r].op = "send_message" /\ req[r].pc = "message" /\ req'[r].pc = "idle"

\* C27: send_message by an entitled sender refuses content that is empty
\* or whitespace after trimming and content longer than 1000 characters
\* (1001 refused, 1000 accepted) and then inserts no Message; an accepted
\* request appends exactly one Message with its event, sender and content
C27_MessageValidation ==
    [][/\ \A u \in Users, e \in 1..Len(events), c \in Contents :
             Entitled(u, e) =>
                send_message_check(u, e, "POST", c) =
                   IF c.len = 0 \/ c.len > 1000 THEN "ValidationError"
                   ELSE "proceed"
       /\ \A u \in Users, e \in 1..Len(events) :
             Entitled(u, e) =>
                /\ send_message_check(u, e, "POST", [pad |-> 0, len |-> 1000])
                      = "proceed"
                /\ send_message_check(u, e, "POST", [pad |-> 0, len |-> 1001])
                      = "ValidationError"
       /\ (response' = Reply("send_message", "ValidationError") /\ req' = req)
             => messages' = messages
       /\ \A r \in Requests :
             MessageCreated(r) =>
                /\ Len(messages') = Len(messages) + 1
                /\ SubSeq(messages', 1, Len(messages)) = messages
                /\ messages'[Len(messages')].room = req[r].event
                /\ messages'[Len(messages')].sender = req[r].user
                /\ messages'[Len(messages')].content = req[r].content
                /\ req[r].content.len \in 1..1000]_vars

C27_Witness ==
    /\ response = Reply("send_message", "ValidationError")
    /\ Len(messages) = 1
    /\ messages[1].content = [pad |-> 0, len |-> 1000]
    /\ messages[1].sender = "bob"

\* A listing that gives the rows in the order of their insertion
InInsertionOrder(sq) == \A i, j \in DOMAIN sq : i < j => sq[i].id < sq[j].id

C29_MessagesAppendOnly ==
    [][/\ Len(messages') >= Len(messages)
       /\ \A i \in 1..Len(messages) :
             /\ messages'[i].room = messages[i].room
             /\ messages'[i].sender = messages[i].sender
             /\ messages'[i].content = messages[i].content
             /\ messages'[i].created_at = messages[i].created_at
       /\ \A e \in EventIds : RoomRows(messages, e) \subseteq RoomRows(messages', e)]_vars

C29_Witness ==
    /\ Len(messages) = 2
    /\ messages[1].sender = "alice" /\ messages[2].sender = "alice"
    /\ messages[1].content = [pad |-> 0, len |-> 1000]
    /\ messages[2].content = [pad |-> 0, len |-> 1000]
    /\ messages[1].created_at = 1 /\ messages[2].created_at = 2
    /\ response = Reply("send_message", "ok")

\* The events a response of index or events_api shows
ListedEvents(resp) ==
    IF resp.op = "index" THEN {resp.body[1][i] : i \in DOMAIN resp.body[1]}
    ELSE {resp.body[1].results[i] : i \in DOMAIN resp.body[1].results}

\* C30: every event that index or events_api shows, whatever the name,
\* price_min, price_max and location filters and the page, has
\* is_published = true and is neither pending nor rejected
C30_OnlyPublishedListed ==
    [][(response'.op \in {"index", "events_api"} /\ response'.result = "ok")
          => \A x \in ListedEvents(response') :
                /\ x.is_published
                /\ events[x.id].is_published
                /\ events[x.id].moderation_status \notin {"pending", "rejected"}]_vars

\* C31: is_approved of an event is true exactly when its moderation_status
\* is approved and its is_published is true; it is false for a pending
\* event, for a rejected event and for an approved event whose is_published
\* is false, and a read of it answers that value
C31_IsApproved ==
    /\ \A e \in 1..Len(events) :
          /\ is_approved(events[e]) <=>
                (events[e].moderation_status = "approved" /\ events[e].is_published)
          /\ events[e].moderation_status = "pending" => ~is_approved(events[e])
          /\ events[e].moderation_status = "rejected" => ~is_approved(events[e])
          /\ (events[e].moderation_status = "approved" /\ ~events[e].is_published)
                => ~is_approved(events[e])
    /\ response.op = "is_approved" =>
          LET row == events[req["r1"].event] IN
          response.result =
              IF row.moderation_status = "approved" /\ row.is_published
              THEN "True" ELSE "False"

C31_Witness ==
    /\ response = Reply("is_approved", "False")
    /\ events[req["r1"].event].moderation_status = "approved"
    /\ ~events[req["r1"].event].is_published

\* Text t occurs in text s when letter case is ignored
ContainsText(s, t) ==
    \E k \in 0..(Len(s) - Len(t)) :
        SubSeq(LowerText(s), k + 1, k + Len(t)) = LowerText(t)

BlankText(t) == \A i \in DOMAIN t : t[i] = " "

\* The published events that satisfy every supplied filter of q at once
Matching(evs, q) ==
    {i \in 1..Len(evs) :
        /\ evs[i].is_published
        /\ BlankText(q.name) \/ ContainsText(evs[i].title, StripText(q.name))
        /\ q.price_min.kind = "decimal" => evs[i].ticket_price >= q.price_min.cents
        /\ q.price_max.kind = "decimal" => evs[i].ticket_price <= q.price_max.cents
        /\ BlankText(q.location)
              \/ ContainsText(evs[i].venue, StripText(q.location))}

\* Requests whose price bounds are blank or parse as decimals
ParseableFilters ==
    {[NoQuery EXCEPT !.name = f[1], !.price_min = f[2], !.price_max = f[3],
                     !.location = f[4]] :
        f \in NameInputs \X (PriceInputs \ {[kind |-> "text", cents |-> 0]})
                \X (PriceInputs \ {[kind |-> "text", cents |-> 0]})
                \X LocationInputs}

ListedIds(resp) == {x.id : x \in ListedEvents(resp)}

\* C32: for filters that parse, the events index and events_api select are
\* exactly the published events whose title contains the name, whose
\* ticket_price lies between price_min and price_max inclusive and whose
\* venue contains the location, letter case ignored and a blank filter
\* constraining nothing; index shows each of them once and events_api
\* counts them and shows a page of them
C32_FiltersConjunctive ==
    /\ \A q \in ParseableFilters : FilteredEvents(events, q) = Matching(events, q)
    /\ ( /\ response.op \in {"index", "events_api"} /\ response.result = "ok"
         /\ req["r1"].query.price_min.kind # "text"
         /\ req["r1"].query.price_max.kind # "text" )
       => LET want == Matching(events, req["r1"].query) IN
          IF response.op = "index"
          THEN /\ ListedIds(response) = want
               /\ Len(response.body[1]) = Cardinality(want)
          ELSE /\ response.body[1].count = Cardinality(want)
               /\ ListedIds(response) \subseteq want
               /\ response.body[1].page_size >= Cardinality(want)
                     => ListedIds(response) = want

C32_Witness ==
    /\ response.op = "index" /\ response.result = "ok"
    /\ req["r1"].query.name = <<"r", "O">>
    /\ req["r1"].query.price_max = [kind |-> "decimal", cents |-> 5000]
    /\ req["r1"].query.location = <<"o">>
    /\ Len(events) = 2 /\ events[1].is_published /\ events[2].is_published
    /\ ListedIds(response) = {2}

\* ceil(n / d)
Ceil(n, d) == (n + d - 1) \div d

\* The page_size and page a request asks for, as the claim reads them
AskedSize(q) ==
    IF q.page_size.kind # "int" THEN 10
    ELSE IF q.page_size.n < 1 THEN 1
    ELSE IF q.page_size.n > 100 THEN 100 ELSE q.page_size.n

AskedPage(q) ==
    IF q.page.kind # "int" THEN 1 ELSE IF q.page.n < 1 THEN 1 ELSE q.page.n

\* The body of an events_api answer reports n matching events in the given
\* number of pages for request q
PageReport(body, q, n, pages) ==
    LET page == IF AskedPage(q) > pages THEN 1 ELSE AskedPage(q) IN
    /\ body.page_size = AskedSize(q) /\ body.page_size \in 1..100
    /\ body.page = page /\ body.page >= 1
    /\ body.count = n
    /\ body.total_pages = pages
    /\ Len(body.results) <= body.page_size
    /\ body.has_previous = (body.page > 1)
    /\ body.has_next = (body.page < body.total_pages)

ApiAnswered == response.op = "events_api" /\ response.result = "ok"

\* C33 as stated: events_api over N matching events clamps page_size into
\* 1..100 (10 by default), page to at least 1 (1 by default), answers a
\* page past the last with page 1, and reports count N, total_pages
\* ceil(N / page_size), at most page_size results, has_previous and has_next
C33_Original ==
    ApiAnswered =>
        LET q == req["r1"].query
            n == Cardinality(Matching(events, q))
        IN PageReport(response.body[1], q, n, Ceil(n, AskedSize(q)))

\* C33: the same, with total_pages = ceil(N / page_size) when N > 0 and
\* total_pages = 1 when no event matches
C33_Pagination ==
    ApiAnswered =>
        LET q == req["r1"].query
            n == Cardinality(Matching(events, q))
        IN PageReport(response.body[1], q, n,
                      IF n = 0 THEN 1 ELSE Ceil(n, AskedSize(q)))

C33_Witness ==
    /\ ApiAnswered
    /\ Len(events) = 2
    /\ req["r1"].query.page = [kind |-> "int", n |-> 2]
    /\ response.body[1].count = 0
    /\ response.body[1].total_pages = 1
    /\ response.body[1].page = 1

Unparseable(p) == p.kind = "text"

\* Request q without its unparseable price bounds
WithoutUnparseable(q) ==
    [q EXCEPT !.price_min = IF Unparseable(@) THEN NoPrice ELSE @,
              !.price_max = IF Unparseable(@) THEN NoPrice ELSE @]

FilterInputs ==
    {[NoQuery EXCEPT !.name = f[1], !.price_min = f[2], !.price_max = f[3],
                     !.location = f[4]] :
        f \in NameInputs \X PriceInputs \X PriceInputs \X LocationInputs}

\* C34: events_api answers a request with an unparseable price_min or
\* price_max with an error (status 400) and no results, and answers ok
\* only where both parse; index selects for the same request what it
\* selects without the unparseable bound, the other filters applied
C34_UnparseablePrice ==
    /\ \A q \in FilterInputs :
          /\ (Unparseable(q.price_min) \/ Unparseable(q.price_max))
                <=> events_api_check(q) \in {"InvalidPriceMin", "InvalidPriceMax"}
          /\ FilteredEvents(events, q) = Matching(events, WithoutUnparseable(q))
    /\ response.op = "events_api" =>
          LET q == req["r1"].query IN
          IF Unparseable(q.price_min) \/ Unparseable(q.price_max)
          THEN /\ response.result \in {"InvalidPriceMin", "InvalidPriceMax"}
               /\ response.body = <<>>
          ELSE response.result = "ok"
    /\ response.op = "index" =>
          /\ response.result = "ok"
          /\ ListedIds(response) = Matching(events, WithoutUnparseable(req["r1"].query))

C34_Witness ==
    /\ response = Reply("events_api", "InvalidPriceMax")
    /\ req["r1"].query.price_min = [kind |-> "decimal", cents |-> 7550]
    /\ Unparseable(req["r1"].query.price_max)
    /\ Len(events) = 2 /\ events[1].is_published /\ events[2].is_published

\* C35: no step takes the moderation_status of an event from approved or
\* rejected back to pending (or to any value but those two), whatever
\* approve, reject, edit and purchase requests are served
C35_NeverBackToPending ==
    [][\A e \in 1..Len(events) :
          events[e].moderation_status \in {"approved", "rejected"}
             => events'[e].moderation_status \in {"approved", "rejected"}]_vars

\* A step in which request r ends add_to_cart or update_cart_quantity
\* with success
CartWritten(r) ==
    /\ \/ req[r].op = "add_to_cart" /\ req[r].pc \in {"item_create", "update"}
          /\ response' = Reply("add_to_cart", "ok")
       \/ req[r].op = "update_cart_quantity" /\ req[r].pc = "save"
          /\ response' = Reply("update_cart_quantity", "ok")
    /\ req'[r].pc = "idle"

\* C36: every CartItem has quantity >= 1, and the item a successful
\* add_to_cart or update_cart_quantity wrote has a quantity of at most the
\* ticket_availability that request read
C36_CartQuantityBounds ==
    [][/\ \A it \in items \cup items' : it.quantity >= 1
       /\ \A r \in Requests :
             CartWritten(r) =>
                \A it \in items' \ items :
                    it.quantity <= req[r].ev.ticket_availability]_vars

C36_Witness ==
    /\ response = Reply("update_cart_quantity", "ok")
    /\ Len(events) = 1 /\ events[1].ticket_availability = 1
    /\ Len(orders) = 1
    /\ items = {[id |-> 1, user |-> "alice", event |-> 1, quantity |-> 1]}

\* C37: the Order a purchase created entitles its attendee from then on:
\* no step removes an Order or changes its attendee, event or status, so a
\* user who can access the chat of an event and stays an attendee can
\* access it after every step
C37_AccessKept ==
    [][/\ \A r \in Requests :
             (req[r].op = "buy_ticket" /\ req[r].pc = "create" /\ req'[r].pc = "write"
                 /\ userprofile'[req[r].user] = "attendee")
                => can_user_access(req[r].user, req[r].event)'
       /\ \A u \in Users, e \in EventIds :
             (can_user_access(u, e) /\ userprofile'[u] = "attendee")
                => can_user_access(u, e)'
       /\ Len(orders') >= Len(orders)
       /\ \A i \in 1..Len(orders) :
             /\ orders'[i].attendee = orders[i].attendee
             /\ orders'[i].event = orders[i].event
             /\ orders'[i].status = orders[i].status]_vars

C37_Witness ==
    /\ Len(orders) = 2
    /\ orders[1].attendee = "alice" /\ orders[2].attendee = "bob"
    /\ can_user_access("alice", 1)
    /\ messages # <<>> /\ messages[Len(messages)].sender = "alice"
    /\ response = Reply("buy_ticket", "ok")

\* A step in which request r writes or deletes a CartItem for
\* update_cart_quantity or remove_from_cart
CartItemTouched(r) ==
    \/ req[r].op = "update_cart_quantity" /\ req[r].pc = "save"
    \/ req[r].op = "remove_from_cart" /\ req[r].pc = "delete"

\* C38: update_cart_quantity and remove_from_cart naming a CartItem of
\* another user's cart are answered NotFound with every Cart and CartItem
\* unchanged, and the item such a request writes or deletes belongs to
\* the caller's cart, every other user's items left as they were
C38_CartIsolation ==
    [][/\ \A u \in Users, it \in items, q \in {IntQty(0), IntQty(1)} :
             (has_user_type(u, "attendee") /\ it.user # u) =>
                /\ remove_from_cart_check(u, it.id) = "NotFound"
                /\ update_cart_quantity_check(u, it.id, "POST", q) = "NotFound"
       /\ ( /\ response' \in {Reply("remove_from_cart", "NotFound"),
                              Reply("update_cart_quantity", "NotFound")}
            /\ req' = req )
          => (items' = items /\ carts' = carts)
       /\ \A r \in Requests :
             CartItemTouched(r) =>
                /\ req[r].item.user = req[r].user
                /\ \A it \in items : it.user # req[r].user => it \in items'
                /\ \A it \in items' \ items : it.user = req[r].user
                /\ \A it \in items \ items' : it.user = req[r].user
                /\ carts' = carts]_vars

C38_Witness ==
    /\ response = Reply("remove_from_cart", "NotFound")
    /\ \E a, b \in items : a.user = "alice" /\ b.user = "bob"
    /\ Cardinality(items) = 2

Participants(e) == {get_participants(e)[i] : i \in DOMAIN get_participants(e)}

\* C39: a user who can access the chat of an event is one of its
\* participants; a participant whose role is attendee can access it, so a
\* participant who cannot has another role; both calls answer accordingly
C39_AccessVersusParticipants ==
    /\ \A u \in Users, e \in EventIds :
          /\ can_user_access(u, e) => u \in Participants(e)
          /\ (u \in Participants(e) /\ userprofile[u] = "attendee")
                => can_user_access(u, e)
          /\ (u \in Participants(e) /\ ~can_user_access(u, e))
                => userprofile[u] # "attendee"
    /\ (response.op = "can_user_access" /\ response.result = "True")
          => req["r1"].user \in Participants(req["r1"].event)
    /\ response.op = "get_participants" =>
          \A i \in DOMAIN response.body :
              userprofile[response.body[i]] = "attendee"
                 => can_user_access(response.body[i], req["r1"].event)

C39_Witness ==
    /\ response.op = "get_participants"
    /\ userprofile["alice"] = "event_organizer"
    /\ response.body = <<"bob", "alice">>
    /\ can_user_access("bob", req["r1"].event)
    /\ ~can_user_access("alice", req["r1"].event)
====
